---- MODULE Spec2Model ----
(***************************************************************************)
(* A model of the Axion calculator: the tokenizer, the recursive-descent   *)
(* parser and the tree-walking evaluator, with the variable environment    *)
(* of a session.                                                           *)
(*                                                                         *)
(* Go strings are sequences of one-character strings, so that scanning,    *)
(* concatenation and number parsing are computed character by character.   *)
(* A nil *Node is the record Nil; a nil error is the string NoErr.         *)
(***************************************************************************)
EXTENDS Integers, Sequences, FiniteSets, TLC

VARIABLES
    Tokens,     \* parser: Parser.Tokens, the input token sequence
    pos,        \* parser: Parser.pos after ParseExpression
    ast,        \* parser: the *Node ParseExpression returned
    perr,       \* parser: the error ParseExpression returned
    pstage,     \* parser: "ready" before the call, "done" after it; "off"
                \* while another component runs
    input,      \* tokenizer: the input string of Tokenize
    i,          \* tokenizer: the scan index of the outer loop
    tokens,     \* tokenizer: the accumulated token sequence
    numberBuffer, \* tokenizer: the pending numeric literal
    wordBuffer, \* tokenizer: the function-level word buffer
    terr,       \* tokenizer: the error Tokenize returned
    tstage,     \* tokenizer: "scan" in the loop, "done" or "error" after the
                \* return; "off" while another component runs
    evalNode,   \* evaluator: the *Node passed to Eval
    evalVal,    \* evaluator: the float64 Eval returned
    evalErr,    \* evaluator: the error Eval returned
    estage,     \* evaluator: "ready" before the call, "done" after it; "off"
                \* while another component runs
    Vars,       \* session: the variable environment, name -> value
    line,       \* session: the token sequence of the last line entered
    lineVal,    \* session: the value the last line printed
    lineErr,    \* session: the error the last line printed
    nlines,     \* session: the number of lines entered so far
    sstage,     \* session: "prompt" while the loop runs; "off" while another
                \* component runs
    historyFile, \* REPL: history.json: whether it exists and the entries it holds
    Precision,  \* REPL: settings.Precision
    setArg,     \* REPL: the argument of the last settings.Set
    setErr,     \* REPL: the error the last settings.Set returned
    replLine,   \* REPL: the last line read, after strings.TrimSpace
    replVal,    \* REPL: the result the last line printed
    replErr,    \* REPL: the error the last line printed
    saveErr,    \* REPL: the error the last AddHistory returned
    ioFault,    \* REPL: the file operation that failed in the last
                \* AddHistory, "none" when the file system worked
    replCount,  \* REPL: the number of lines read so far
    rstage      \* REPL: "prompt" while the loop runs, "exited" after exit,
                \* "settings" while settings.Set is called on its own; "off"
                \* while another component runs

parserVars == <<Tokens, pos, ast, perr, pstage>>
tokenizerVars == <<input, i, tokens, numberBuffer, wordBuffer, terr, tstage>>
evaluatorVars == <<evalNode, evalVal, evalErr, estage>>
sessionVars == <<Vars, line, lineVal, lineErr, nlines, sstage>>
replVars == <<historyFile, Precision, setArg, setErr, replLine, replVal, replErr,
              saveErr, ioFault, replCount, rstage>>
nonTokenizerVars == <<parserVars, evaluatorVars, sessionVars, replVars>>
vars == <<parserVars, tokenizerVars, evaluatorVars, sessionVars, replVars>>

(***************************************************************************)
(* Bounds of the model.                                                    *)
(***************************************************************************)
MaxLen == 3         \* every token sequence up to this length is parsed
MaxChain == 4       \* longest operator chain a1 op a2 op ... op an
MaxInputLen == 4    \* every input string up to this length is tokenized
PrecisionMargin == 3 \* settings.Set is called with arguments this far
                     \* below and above the accepted range
MaxReplLines == 3   \* lines read by the REPL in one run
MaxLiveLen == 3     \* every input string up to this length is tokenized
                    \* under fairness

(***************************************************************************)
(* Tokens (tokenizer.Token) and AST nodes (parser.Node).                   *)
(***************************************************************************)
NoErr == "nil"

Tok(type, value) == [Type |-> type, Value |-> value]

Num(c)   == Tok("NUMBER", <<c>>)
Ident(c) == Tok("IDENT", <<c>>)
Op(c)    == Tok("OPERATOR", <<c>>)
Paren(c) == Tok("PAREN", <<c>>)
Func(s)  == Tok("FUNCTION", s)
Assign   == Tok("ASSIGN", <<"=">>)
Cmp(s)   == Tok("COMPARISON", s)
Logical(s) == Tok("LOGICAL", s)

Nil == [Type |-> "nil"]

Node(type, value, left, right, children) ==
    [Type |-> type, Value |-> value, Left |-> left, Right |-> right,
     Children |-> children]

IsNil(n) == n.Type = "nil"

\* No value: what a result variable holds before its call has returned.
NoVal == [k |-> "none"]

\* The result of one parsing method: the node and error it returns, and the
\* parser position it leaves behind.
Res(node, err, p) == [node |-> node, err |-> err, pos |-> p]

Fail(msg, p) == Res(Nil, msg, p)

\* p.pos < len(p.Tokens) && p.Tokens[p.pos].Value == v
ValueAt(toks, p, v) == p < Len(toks) /\ toks[p + 1].Value = v

RECURSIVE invoke(_, _, _)
RECURSIVE parseLogicalOrLoop(_, _, _)
RECURSIVE parseLogicalAndLoop(_, _, _)
RECURSIVE parseComparisonLoop(_, _, _)
RECURSIVE parseAddSubLoop(_, _, _)
RECURSIVE parseMulDivLoop(_, _, _)
RECURSIVE parsePostfixLoop(_, _, _)
RECURSIVE parseArgsLoop(_, _, _)

\* The argument list of a call, entered after its '(' was consumed; the node
\* field of the result carries the argument sequence.
parseArgs(toks, p) ==
    IF p < Len(toks) /\ toks[p + 1].Value # <<")">>
    THEN LET arg == invoke("parseAssignment", toks, p) IN
         IF arg.err # NoErr THEN arg
         ELSE parseArgsLoop(toks, <<arg.node>>, arg.pos)
    ELSE Res(<<>>, NoErr, p)

parseArgsLoop(toks, args, p) ==
    IF ValueAt(toks, p, <<",">>)
    THEN LET arg == invoke("parseAssignment", toks, p + 1) IN
         IF arg.err # NoErr THEN arg
         ELSE parseArgsLoop(toks, Append(args, arg.node), arg.pos)
    ELSE Res(args, NoErr, p)

\* An identifier or function name `tok`, already consumed, followed by '(' :
\* the call node; otherwise a bare identifier node.
parseCall(toks, p, tok, msg) ==
    IF ValueAt(toks, p, <<"(">>)
    THEN LET args == parseArgs(toks, p + 1) IN
         IF args.err # NoErr THEN args
         ELSE IF args.pos >= Len(toks) \/ toks[args.pos + 1].Value # <<")">>
         THEN Fail(msg, args.pos)
         ELSE Res(Node("NODE_FUNCTION", tok.Value, Nil, Nil, args.node),
                  NoErr, args.pos + 1)
    ELSE Res(Node("NODE_IDENTIFIER", tok.Value, Nil, Nil, <<>>), NoErr, p)

parseFactor_UnclosedGroup(toks, p0) ==
    IF p0 >= Len(toks) THEN Fail("unexpected end of expression", p0)
    ELSE
    LET tok == toks[p0 + 1]
        p == p0 + 1
    IN  CASE tok.Type = "NUMBER" ->
               Res(Node("NODE_NUMBER", tok.Value, Nil, Nil, <<>>), NoErr, p)
          [] tok.Type = "IDENT" ->
               parseCall(toks, p, tok,
                         "unmatched opening parenthesis in function call")
          [] tok.Type = "FUNCTION" ->
               IF tok.Value = <<"!">>
               THEN Fail("unexpected factorial operator", p - 1)
               ELSE parseCall(toks, p, tok,
                              "unmatched opening parenthesis in function")
          [] tok.Type = "PAREN" ->
               IF tok.Value = <<"(">>
               THEN LET subExpr == invoke("parseAssignment", toks, p) IN
                    IF subExpr.err # NoErr THEN subExpr
                    ELSE IF IsNil(subExpr.node)
                    THEN Fail("empty parentheses", subExpr.pos)
                    ELSE IF subExpr.pos >= Len(toks)
                    THEN Res(subExpr.node, NoErr, subExpr.pos)
                    ELSE IF toks[subExpr.pos + 1].Value # <<")">>
                    THEN Fail("unmatched opening parenthesis", subExpr.pos)
                    ELSE Res(subExpr.node, NoErr, subExpr.pos + 1)
               ELSE IF tok.Value = <<")">>
               THEN Fail("unexpected closing parenthesis", p)
               ELSE Res(Nil, NoErr, p)
          [] OTHER -> Fail("unexpected token", p)

parseFactor(toks, p0) ==
    IF p0 >= Len(toks) THEN Fail("unexpected end of expression", p0)
    ELSE
    LET tok == toks[p0 + 1]
        p == p0 + 1
    IN  CASE tok.Type = "NUMBER" ->
               Res(Node("NODE_NUMBER", tok.Value, Nil, Nil, <<>>), NoErr, p)
          [] tok.Type = "IDENT" ->
               parseCall(toks, p, tok,
                         "unmatched opening parenthesis in function call")
          [] tok.Type = "FUNCTION" ->
               IF tok.Value = <<"!">>
               THEN Fail("unexpected factorial operator", p - 1)
               ELSE parseCall(toks, p, tok,
                              "unmatched opening parenthesis in function")
          [] tok.Type = "PAREN" ->
               IF tok.Value = <<"(">>
               THEN LET subExpr == invoke("parseAssignment", toks, p) IN
                    IF subExpr.err # NoErr THEN subExpr
                    ELSE IF IsNil(subExpr.node)
                    THEN Fail("empty parentheses", subExpr.pos)
                    ELSE IF subExpr.pos >= Len(toks)
                            \/ toks[subExpr.pos + 1].Value # <<")">>
                    THEN Fail("unmatched opening parenthesis", subExpr.pos)
                    ELSE Res(subExpr.node, NoErr, subExpr.pos + 1)
               ELSE IF tok.Value = <<")">>
               THEN Fail("unexpected closing parenthesis", p)
               ELSE Res(Nil, NoErr, p)
          [] OTHER -> Fail("unexpected token", p)

\* parsePostfix accepting a leading sign, which makes the right operand of
\* '^' a signed one.
parsePostfix_Signed(toks, p) ==
    IF p < Len(toks) /\ toks[p + 1].Type = "OPERATOR"
       /\ (toks[p + 1].Value = <<"-">> \/ toks[p + 1].Value = <<"+">>)
    THEN invoke("parseUnary", toks, p)
    ELSE
    LET r == invoke("parseFactor", toks, p) IN
    IF r.err # NoErr THEN r
    ELSE IF IsNil(r.node) THEN Fail("expected expression", r.pos)
    ELSE parsePostfixLoop(toks, r.node, r.pos)

parsePostfix(toks, p) ==
    LET r == invoke("parseFactor", toks, p) IN
    IF r.err # NoErr THEN r
    ELSE IF IsNil(r.node) THEN Fail("expected expression", r.pos)
    ELSE parsePostfixLoop(toks, r.node, r.pos)

parsePostfixLoop(toks, node, p) ==
    IF p < Len(toks) /\ toks[p + 1].Type = "FUNCTION"
       /\ toks[p + 1].Value = <<"!">>
    THEN parsePostfixLoop(toks,
             Node("NODE_FUNCTION", <<"!">>, Nil, Nil, <<node>>), p + 1)
    ELSE Res(node, NoErr, p)

\* parseExponent with the right operand parsed one level up (parsePostfix), as
\* a left-to-right parser would.
parseExponent_NoRecursion(toks, p) ==
    LET r == invoke("parsePostfix", toks, p) IN
    IF r.err # NoErr THEN r
    ELSE IF r.pos < Len(toks) /\ toks[r.pos + 1] = Op("^")
    THEN LET right == invoke("parsePostfix", toks, r.pos + 1) IN
         IF right.err # NoErr THEN right
         ELSE Res(Node("NODE_OPERATOR", <<"^">>, r.node, right.node, <<>>),
                  NoErr, right.pos)
    ELSE r

parseExponent(toks, p) ==
    LET r == invoke("parsePostfix", toks, p) IN
    IF r.err # NoErr THEN r
    ELSE IF IsNil(r.node) THEN Fail("expected expression", r.pos)
    ELSE IF r.pos < Len(toks) /\ toks[r.pos + 1] = Op("^")
    THEN LET right == invoke("parseExponent", toks, r.pos + 1) IN
         IF right.err # NoErr THEN right
         ELSE IF IsNil(right.node)
         THEN Fail("expected expression after '^'", right.pos)
         ELSE Res(Node("NODE_OPERATOR", <<"^">>, r.node, right.node, <<>>),
                  NoErr, right.pos)
    ELSE r

\* parseUnary with the operand parsed at the postfix level, so that the sign
\* binds tighter than '^'.
parseUnary_TightSign(toks, p) ==
    IF p >= Len(toks) THEN Fail("unexpected end of expression", p)
    ELSE
    LET tok == toks[p + 1] IN
    IF tok.Type = "OPERATOR" /\ (tok.Value = <<"-">> \/ tok.Value = <<"+">>)
    THEN LET child == invoke("parsePostfix", toks, p + 1) IN
         IF child.err # NoErr THEN child
         ELSE IF tok.Value = <<"-">>
         THEN Res(Node("NODE_OPERATOR", <<"n", "e", "g">>, child.node, Nil, <<>>),
                  NoErr, child.pos)
         ELSE child
    ELSE invoke("parseExponent", toks, p)

parseUnary(toks, p) ==
    IF p >= Len(toks) THEN Fail("unexpected end of expression", p)
    ELSE
    LET tok == toks[p + 1] IN
    IF tok.Type = "OPERATOR" /\ (tok.Value = <<"-">> \/ tok.Value = <<"+">>)
    THEN LET child == invoke("parseExponent", toks, p + 1) IN
         IF child.err # NoErr THEN child
         ELSE IF IsNil(child.node)
         THEN Fail("expected expression after unary", child.pos)
         ELSE IF tok.Value = <<"-">>
         THEN Res(Node("NODE_OPERATOR", <<"n", "e", "g">>, child.node, Nil, <<>>),
                  NoErr, child.pos)
         ELSE child
    ELSE invoke("parseExponent", toks, p)

parseMulDiv(toks, p) ==
    LET r == invoke("parseUnary", toks, p) IN
    IF r.err # NoErr THEN r
    ELSE IF IsNil(r.node) THEN Fail("expected expression", r.pos)
    ELSE parseMulDivLoop(toks, r.node, r.pos)

\* parseMulDivLoop taking the whole rest of the chain as the right operand
\* (right-associative).
parseMulDivLoop_RightAssoc(toks, node, p) ==
    IF p < Len(toks) /\ toks[p + 1].Type = "OPERATOR"
       /\ (toks[p + 1].Value = <<"*">> \/ toks[p + 1].Value = <<"/">>)
    THEN LET right == invoke("parseMulDiv", toks, p + 1) IN
         IF right.err # NoErr THEN right
         ELSE Res(Node("NODE_OPERATOR", toks[p + 1].Value, node, right.node, <<>>),
                  NoErr, right.pos)
    ELSE Res(node, NoErr, p)

parseMulDivLoop(toks, node, p) ==
    IF p < Len(toks) /\ toks[p + 1].Type = "OPERATOR"
       /\ (toks[p + 1].Value = <<"*">> \/ toks[p + 1].Value = <<"/">>)
    THEN LET right == invoke("parseUnary", toks, p + 1) IN
         IF right.err # NoErr THEN right
         ELSE IF IsNil(right.node)
         THEN Fail("expected expression after operator", right.pos)
         ELSE parseMulDivLoop(toks,
                  Node("NODE_OPERATOR", toks[p + 1].Value, node, right.node, <<>>),
                  right.pos)
    ELSE Res(node, NoErr, p)

parseAddSub(toks, p) ==
    LET r == invoke("parseMulDiv", toks, p) IN
    IF r.err # NoErr THEN r
    ELSE IF IsNil(r.node) THEN Fail("expected expression", r.pos)
    ELSE parseAddSubLoop(toks, r.node, r.pos)

\* parseAddSubLoop with the right operand parsed by parseUnary, skipping the
\* '*' and '/' level.
parseAddSubLoop_NoMulDiv(toks, node, p) ==
    IF p < Len(toks) /\ toks[p + 1].Type = "OPERATOR"
       /\ (toks[p + 1].Value = <<"+">> \/ toks[p + 1].Value = <<"-">>)
    THEN LET right == invoke("parseUnary", toks, p + 1) IN
         IF right.err # NoErr THEN right
         ELSE parseAddSubLoop(toks,
                  Node("NODE_OPERATOR", toks[p + 1].Value, node, right.node, <<>>),
                  right.pos)
    ELSE Res(node, NoErr, p)

parseAddSubLoop(toks, node, p) ==
    IF p < Len(toks) /\ toks[p + 1].Type = "OPERATOR"
       /\ (toks[p + 1].Value = <<"+">> \/ toks[p + 1].Value = <<"-">>)
    THEN LET right == invoke("parseMulDiv", toks, p + 1) IN
         IF right.err # NoErr THEN right
         ELSE IF IsNil(right.node)
         THEN Fail("expected expression after operator", right.pos)
         ELSE parseAddSubLoop(toks,
                  Node("NODE_OPERATOR", toks[p + 1].Value, node, right.node, <<>>),
                  right.pos)
    ELSE Res(node, NoErr, p)

parseComparison(toks, p) ==
    LET r == invoke("parseAddSub", toks, p) IN
    IF r.err # NoErr THEN r
    ELSE parseComparisonLoop(toks, r.node, r.pos)

parseComparisonLoop(toks, node, p) ==
    IF p < Len(toks) /\ toks[p + 1].Type = "COMPARISON"
    THEN LET rightNode == invoke("parseAddSub", toks, p + 1) IN
         IF rightNode.err # NoErr THEN rightNode
         ELSE IF IsNil(rightNode.node)
         THEN Fail("expected expression after operator", rightNode.pos)
         ELSE parseComparisonLoop(toks,
                  Node("NODE_COMPARISON", toks[p + 1].Value, node,
                       rightNode.node, <<>>),
                  rightNode.pos)
    ELSE Res(node, NoErr, p)

parseLogicalAnd(toks, p) ==
    LET r == invoke("parseComparison", toks, p) IN
    IF r.err # NoErr THEN r
    ELSE parseLogicalAndLoop(toks, r.node, r.pos)

\* parseLogicalAndLoop with the right operand parsed at the '||' level, so
\* that '&&' binds looser than '||' on its right.
parseLogicalAndLoop_OrInside(toks, node, p) ==
    IF p < Len(toks) /\ toks[p + 1] = Logical(<<"&", "&">>)
    THEN LET rightNode == invoke("parseLogicalOr", toks, p + 1) IN
         IF rightNode.err # NoErr THEN rightNode
         ELSE parseLogicalAndLoop(toks,
                  Node("NODE_AND", <<"&", "&">>, node, rightNode.node, <<>>),
                  rightNode.pos)
    ELSE Res(node, NoErr, p)

parseLogicalAndLoop(toks, node, p) ==
    IF p < Len(toks) /\ toks[p + 1] = Logical(<<"&", "&">>)
    THEN LET rightNode == invoke("parseComparison", toks, p + 1) IN
         IF rightNode.err # NoErr THEN rightNode
         ELSE IF IsNil(rightNode.node)
         THEN Fail("expected expression after operator", rightNode.pos)
         ELSE parseLogicalAndLoop(toks,
                  Node("NODE_AND", <<"&", "&">>, node, rightNode.node, <<>>),
                  rightNode.pos)
    ELSE Res(node, NoErr, p)

parseLogicalOr(toks, p) ==
    LET r == invoke("parseLogicalAnd", toks, p) IN
    IF r.err # NoErr THEN r
    ELSE parseLogicalOrLoop(toks, r.node, r.pos)

parseLogicalOrLoop(toks, node, p) ==
    IF p < Len(toks) /\ toks[p + 1] = Logical(<<"|", "|">>)
    THEN LET rightNode == invoke("parseLogicalAnd", toks, p + 1) IN
         IF rightNode.err # NoErr THEN rightNode
         ELSE IF IsNil(rightNode.node)
         THEN Fail("expected expression after operator", rightNode.pos)
         ELSE parseLogicalOrLoop(toks,
                  Node("NODE_OR", <<"|", "|">>, node, rightNode.node, <<>>),
                  rightNode.pos)
    ELSE Res(node, NoErr, p)

parseAssignment_NoRight(toks, p) ==
    IF p + 1 < Len(toks) /\ toks[p + 1].Type = "IDENT"
       /\ toks[p + 2].Type = "ASSIGN"
    THEN IF p + 2 >= Len(toks)
         THEN Res(Node("NODE_ASSIGN", toks[p + 1].Value, Nil, Nil, <<>>),
                  NoErr, p + 2)
         ELSE LET rightNode == invoke("parseLogicalOr", toks, p + 2) IN
              IF rightNode.err # NoErr THEN rightNode
              ELSE Res(Node("NODE_ASSIGN", toks[p + 1].Value, Nil, rightNode.node,
                            <<>>),
                       NoErr, rightNode.pos)
    ELSE invoke("parseLogicalOr", toks, p)

parseAssignment(toks, p) ==
    IF p + 1 < Len(toks) /\ toks[p + 1].Type = "IDENT"
       /\ toks[p + 2].Type = "ASSIGN"
    THEN LET rightNode == invoke("parseLogicalOr", toks, p + 2) IN
         IF rightNode.err # NoErr THEN rightNode
         ELSE IF IsNil(rightNode.node)
         THEN Fail("expected expression after '='", rightNode.pos)
         ELSE Res(Node("NODE_ASSIGN", toks[p + 1].Value, Nil, rightNode.node, <<>>),
                  NoErr, rightNode.pos)
    ELSE invoke("parseLogicalOr", toks, p)

\* A call p.method() at position pos: the methods of Parser call one another
\* through here.
invoke(method, toks, p) ==
    CASE method = "parseAssignment" -> parseAssignment(toks, p)
      [] method = "parseLogicalOr"  -> parseLogicalOr(toks, p)
      [] method = "parseLogicalAnd" -> parseLogicalAnd(toks, p)
      [] method = "parseComparison" -> parseComparison(toks, p)
      [] method = "parseAddSub"     -> parseAddSub(toks, p)
      [] method = "parseMulDiv"     -> parseMulDiv(toks, p)
      [] method = "parseUnary"      -> parseUnary(toks, p)
      [] method = "parseExponent"   -> parseExponent(toks, p)
      [] method = "parsePostfix"    -> parsePostfix(toks, p)
      [] method = "parseFactor"     -> parseFactor(toks, p)

\* ParseExpression on a fresh Parser{Tokens: toks} (pos = 0). On an error the
\* returned node is nil, whatever was built.
ParseExpression_NoLeftoverCheck(toks) ==
    IF Len(toks) = 0 THEN Fail("empty expression", 0)
    ELSE LET r == parseAssignment(toks, 0) IN
         IF r.err # NoErr THEN Fail(r.err, r.pos)
         ELSE r

ParseExpression(toks) ==
    IF Len(toks) = 0 THEN Fail("empty expression", 0)
    ELSE LET r == parseAssignment(toks, 0) IN
         IF r.err # NoErr THEN Fail(r.err, r.pos)
         ELSE IF r.pos < Len(toks) THEN Fail("unexpected token", r.pos)
         ELSE r

(***************************************************************************)
(* Parser inputs.  Every token sequence of at most MaxLen tokens over the  *)
(* token alphabet, and the operator expressions of the grammar: operands   *)
(* joined by binary operators, with optional parentheses and signs.        *)
(***************************************************************************)
Operands == {Num("2"), Ident("x")}

AddOps == {Op("+"), Op("-")}
MulOps == {Op("*"), Op("/")}
PowOps == {Op("^")}
CmpOps == {Cmp(<<">">>), Cmp(<<"<">>), Cmp(<<">", "=">>), Cmp(<<"<", "=">>),
           Cmp(<<"=", "=">>), Cmp(<<"!", "=">>)}
AndOps == {Logical(<<"&", "&">>)}
OrOps  == {Logical(<<"|", "|">>)}
BinaryOps == AddOps \cup MulOps \cup PowOps \cup CmpOps \cup AndOps \cup OrOps
\* The levels of which chains longer than two operators are built (of the
\* comparisons, which the parser tells apart by type alone, two).
Levels == {AddOps, MulOps, PowOps, {Cmp(<<">">>), Cmp(<<"=", "=">>)}, AndOps, OrOps}

Alphabet ==
    {Num("2"), Ident("x"), Op("+"), Op("-"), Op("*"), Op("/"), Op("^"),
     Op(","), Paren("("), Paren(")"), Func(<<"!">>), Func(<<"s", "i", "n">>),
     Assign, Cmp(<<">">>), Logical(<<"&", "&">>), Logical(<<"|", "|">>)}

SeqsUpTo(S, n) == UNION {[1..k -> S] : k \in 0..n}

\* a1 o1 a2 o2 ... a(n)
Interleave(as, os) ==
    [k \in 1..(2 * Len(as) - 1) |->
        IF k % 2 = 1 THEN as[(k + 1) \div 2] ELSE os[k \div 2]]

Chains(ops, n) ==
    {Interleave(as, os) : as \in [1..n -> Operands], os \in [1..(n - 1) -> ops]}

LP == Paren("(")
RP == Paren(")")

ShapedInputs ==
    \* chains of operators of one precedence level
    UNION {Chains(L, n) : L \in Levels, n \in 2..MaxChain}
    \* two operators of any levels, flat and parenthesised either way
    \cup Chains(BinaryOps, 3)
    \cup {<<LP, t[1], t[2], t[3], RP, t[4], t[5]>> : t \in Chains(BinaryOps, 3)}
    \cup {<<t[1], t[2], LP, t[3], t[4], t[5], RP>> : t \in Chains(BinaryOps, 3)}
    \* arithmetic, then a comparison, then a logical operator
    \cup {<<a[1], o1, a[2], o2, a[3], o3, a[4]>> :
            a \in [1..4 -> Operands], o1 \in AddOps \cup MulOps, o2 \in CmpOps,
            o3 \in AndOps \cup OrOps}
    \* a sign before the first or the second operand of one operator
    \cup {<<s>> \o t : s \in AddOps, t \in Chains(BinaryOps, 2) \cup {<<a>> : a \in Operands}}
    \cup {<<t[1], t[2], s, t[3]>> : s \in AddOps, t \in Chains(BinaryOps, 2)}
    \* a group that is never closed
    \cup {<<LP>> \o t : t \in Chains(BinaryOps, 2)}
    \* a signed exponent in parentheses
    \cup {<<a, Op("^"), LP, s, b, RP>> : a \in Operands, s \in AddOps, b \in Operands}
    \* a second assignment at the top level
    \cup {<<Ident("x"), Assign, a, Assign, b>> : a \in Operands, b \in Operands}

ParserInputs == SeqsUpTo(Alphabet, MaxLen) \cup ShapedInputs

(***************************************************************************)
(* The parser run: one call of ParseExpression on a fresh Parser.          *)
(***************************************************************************)
ParserOff ==
    /\ Tokens = <<>>
    /\ pos = 0
    /\ ast = Nil
    /\ perr = NoErr
    /\ pstage = "off"

TokenizerOff ==
    /\ input = <<>>
    /\ i = 0
    /\ tokens = <<>>
    /\ numberBuffer = <<>>
    /\ wordBuffer = <<>>
    /\ terr = NoErr
    /\ tstage = "off"

EvaluatorOff ==
    /\ evalNode = Nil
    /\ evalVal = NoVal
    /\ evalErr = NoErr
    /\ estage = "off"

SessionOff ==
    /\ Vars = <<>>
    /\ line = <<>>
    /\ lineVal = NoVal
    /\ lineErr = NoErr
    /\ nlines = 0
    /\ sstage = "off"

\* The file history.json: absent, or present with the JSON array `data`.
Absent == [exists |-> FALSE, data |-> <<>>]
File(data) == [exists |-> TRUE, data |-> data]

\* package settings: var Precision = 6, and the range Set accepts.
DefaultPrecision == 6
MinPrecision == 0
MaxPrecision == 20

ReplOff ==
    /\ historyFile = Absent
    /\ Precision = DefaultPrecision
    /\ setArg = DefaultPrecision
    /\ setErr = NoErr
    /\ replLine = <<>>
    /\ replVal = NoVal
    /\ replErr = NoErr
    /\ saveErr = NoErr
    /\ ioFault = "none"
    /\ replCount = 0
    /\ rstage = "off"

InitParser ==
    /\ Tokens \in ParserInputs
    /\ pos = 0
    /\ ast = Nil
    /\ perr = NoErr
    /\ pstage = "ready"
    /\ TokenizerOff
    /\ EvaluatorOff
    /\ SessionOff
    /\ ReplOff

DoParseExpression ==
    /\ pstage = "ready"
    /\ LET r == ParseExpression(Tokens) IN
           /\ ast' = r.node
           /\ perr' = r.err
           /\ pos' = r.pos
    /\ pstage' = "done"
    /\ UNCHANGED <<Tokens, tokenizerVars, evaluatorVars, sessionVars, replVars>>

NextParser == DoParseExpression

SpecParser == InitParser /\ [][NextParser]_vars

(***************************************************************************)
(* The trees the grammar prescribes, built without the parser.             *)
(***************************************************************************)
Leaf(t) ==
    IF t.Type = "NUMBER" THEN Node("NODE_NUMBER", t.Value, Nil, Nil, <<>>)
    ELSE Node("NODE_IDENTIFIER", t.Value, Nil, Nil, <<>>)

Bin(o, l, r) ==
    Node(CASE o.Type = "COMPARISON" -> "NODE_COMPARISON"
           [] o.Type = "LOGICAL" /\ o.Value = <<"&", "&">> -> "NODE_AND"
           [] o.Type = "LOGICAL" /\ o.Value = <<"|", "|">> -> "NODE_OR"
           [] OTHER -> "NODE_OPERATOR",
         o.Value, l, r, <<>>)

Neg(l) == Node("NODE_OPERATOR", <<"n", "e", "g">>, l, Nil, <<>>)

\* t is a1 o1 a2 ... an: operands at the odd places, operators of `ops` at the
\* even ones, n >= 2.
IsChain(t, ops) ==
    /\ Len(t) >= 3
    /\ Len(t) % 2 = 1
    /\ \A k \in 1..Len(t) : IF k % 2 = 1 THEN t[k] \in Operands ELSE t[k] \in ops

RECURSIVE LeftNest(_)
LeftNest(t) ==
    IF Len(t) = 1 THEN Leaf(t[1])
    ELSE Bin(t[Len(t) - 1], LeftNest(SubSeq(t, 1, Len(t) - 2)), Leaf(t[Len(t)]))

RECURSIVE RightNest(_)
RightNest(t) ==
    IF Len(t) = 1 THEN Leaf(t[1])
    ELSE Bin(t[2], Leaf(t[1]), RightNest(SubSeq(t, 3, Len(t))))

Parsed(tree) == perr = NoErr /\ ast = tree

(***************************************************************************)
(* C1.  * and / bind tighter than + and -, and parentheses override this:  *)
(* a op1 b op2 c parses to op1(a, op2(b, c)), a op2 b op1 c to             *)
(* op1(op2(a, b), c), and (a op1 b) op2 c to op2(op1(a, b), c), for op1 in *)
(* {+,-} and op2 in {*,/}.                                                 *)
(***************************************************************************)
C1_ArithmeticPrecedence ==
    pstage = "done" =>
        \A a \in Operands, b \in Operands, c \in Operands,
           op1 \in AddOps, op2 \in MulOps :
            /\ Tokens = <<a, op1, b, op2, c>> =>
                   Parsed(Bin(op1, Leaf(a), Bin(op2, Leaf(b), Leaf(c))))
            /\ Tokens = <<a, op2, b, op1, c>> =>
                   Parsed(Bin(op1, Bin(op2, Leaf(a), Leaf(b)), Leaf(c)))
            /\ Tokens = <<LP, a, op1, b, RP, op2, c>> =>
                   Parsed(Bin(op2, Bin(op1, Leaf(a), Leaf(b)), Leaf(c)))

C1_Witness ==
    /\ pstage = "done"
    /\ Tokens = <<LP, Num("2"), Op("+"), Ident("x"), RP, Op("*"), Num("2")>>
    /\ perr = NoErr
    /\ ast.Value = <<"*">>
    /\ ast.Left.Value = <<"+">>

(***************************************************************************)
(* C2.  Exponentiation is right-associative for chains of any length:      *)
(* a1 ^ a2 ^ ... ^ an parses to ^(a1, ^(a2, ... ^(a(n-1), an))).           *)
(***************************************************************************)
C2_ExponentRightAssociative ==
    (pstage = "done" /\ IsChain(Tokens, PowOps)) => Parsed(RightNest(Tokens))

C2_Witness ==
    /\ pstage = "done"
    /\ IsChain(Tokens, PowOps)
    /\ Len(Tokens) = 2 * MaxChain - 1
    /\ perr = NoErr
    /\ ast.Right.Right.Value = <<"^">>

(***************************************************************************)
(* C3.  + - * / are left-associative: a chain of operators that are all in *)
(* {+,-} or all in {*,/} parses to the left-nested tree, so a op1 b op2 c  *)
(* is op2(op1(a, b), c).                                                   *)
(***************************************************************************)
C3_ArithmeticLeftAssociative ==
    (pstage = "done" /\ (IsChain(Tokens, AddOps) \/ IsChain(Tokens, MulOps)))
        => Parsed(LeftNest(Tokens))

C3_Witness ==
    /\ pstage = "done"
    /\ Tokens = <<Num("2"), Op("/"), Num("2"), Op("/"), Ident("x")>>
    /\ perr = NoErr
    /\ ast.Left.Value = <<"/">>
    /\ ast.Right.Type = "NODE_IDENTIFIER"

(***************************************************************************)
(* C4.  A unary sign binds looser than ^ and tighter than * and /:         *)
(* -a^b parses to neg(^(a, b)), -a*b to *(neg(a), b) (and -a/b alike), and *)
(* a unary plus produces no node: +a parses to a.                          *)
(***************************************************************************)
C4_UnarySignPrecedence ==
    pstage = "done" =>
        \A a \in Operands, b \in Operands :
            /\ Tokens = <<Op("-"), a, Op("^"), b>> =>
                   Parsed(Neg(Bin(Op("^"), Leaf(a), Leaf(b))))
            /\ \A m \in MulOps :
                   Tokens = <<Op("-"), a, m, b>> =>
                       Parsed(Bin(m, Neg(Leaf(a)), Leaf(b)))
            /\ Tokens = <<Op("+"), a>> => Parsed(Leaf(a))
            /\ Tokens = <<Op("+"), a, Op("^"), b>> =>
                   Parsed(Bin(Op("^"), Leaf(a), Leaf(b)))

C4_Witness ==
    /\ pstage = "done"
    /\ Tokens = <<Op("-"), Num("2"), Op("^"), Ident("x")>>
    /\ perr = NoErr
    /\ ast.Value = <<"n", "e", "g">>
    /\ ast.Left.Value = <<"^">>

(***************************************************************************)
(* C5.  Precedence, lowest to highest, is || < && < comparison < + -:      *)
(* of two operators of different levels the higher one takes the operand   *)
(* between them, a + b > c && d parses to AND(CMP(+(a, b), c), d), and a   *)
(* chain at each of these levels is left-associative.                      *)
(***************************************************************************)
LogicLevel(o) ==
    CASE o \in OrOps -> 1
      [] o \in AndOps -> 2
      [] o \in CmpOps -> 3
      [] o \in AddOps -> 4

LogicOps == OrOps \cup AndOps \cup CmpOps \cup AddOps

C5_LogicalComparisonPrecedence ==
    pstage = "done" =>
        /\ \A a \in Operands, b \in Operands, c \in Operands,
              o1 \in LogicOps, o2 \in LogicOps :
               Tokens = <<a, o1, b, o2, c>> =>
                   IF LogicLevel(o1) < LogicLevel(o2)
                   THEN Parsed(Bin(o1, Leaf(a), Bin(o2, Leaf(b), Leaf(c))))
                   ELSE Parsed(Bin(o2, Bin(o1, Leaf(a), Leaf(b)), Leaf(c)))
        /\ \A a \in [1..4 -> Operands], o1 \in AddOps, o2 \in CmpOps, o3 \in AndOps :
               Tokens = <<a[1], o1, a[2], o2, a[3], o3, a[4]>> =>
                   Parsed(Bin(o3, Bin(o2, Bin(o1, Leaf(a[1]), Leaf(a[2])), Leaf(a[3])),
                              Leaf(a[4])))
        /\ \A L \in {OrOps, AndOps, CmpOps} :
               IsChain(Tokens, L) => Parsed(LeftNest(Tokens))

C5_Witness ==
    /\ pstage = "done"
    /\ Tokens = <<Num("2"), Logical(<<"|", "|">>), Ident("x"),
                  Logical(<<"&", "&">>), Num("2")>>
    /\ perr = NoErr
    /\ ast.Type = "NODE_OR"
    /\ ast.Right.Type = "NODE_AND"

(***************************************************************************)
(* The tokenizer: Tokenize of tokenizer.go, one action per iteration of    *)
(* its scan loop and one for the final flush.                              *)
(***************************************************************************)
Digits == {"0", "1", "2", "3", "4", "5", "6", "7", "8", "9"}
Letters == {"a", "b", "c", "d", "e", "f", "g", "h", "i", "j", "k", "l", "m",
            "n", "o", "p", "q", "r", "s", "t", "u", "v", "w", "x", "y", "z",
            "E", "S"}
Spaces == {" "}

IsDigit(ch) == ch \in Digits
IsLetter(ch) == ch \in Letters
IsSpace(ch) == ch \in Spaces

containsDot(s) == \E k \in 1..Len(s) : s[k] = "."

\* The closure addToken: the token sequence after adding t, with the implicit
\* multiplication it inserts.
addToken(toks, t) ==
    IF Len(toks) > 0
    THEN LET last == toks[Len(toks)] IN
         IF t.Type = "FUNCTION" /\ t.Value = <<"!">>
         THEN Append(toks, t)
         ELSE IF /\ (last.Type = "NUMBER"
                     \/ (last.Type = "PAREN" /\ last.Value = <<")">>))
                 /\ (t.Type = "NUMBER" \/ t.Type = "FUNCTION"
                     \/ (t.Type = "PAREN" /\ t.Value = <<"(">>))
         THEN Append(Append(toks, Op("*")), t)
         ELSE Append(toks, t)
    ELSE Append(toks, t)

\* The flush of both buffers that precedes an operator, a parenthesis, '!',
\* a comma and whitespace, and ends the scan.
flushBuffers(toks, nb, wb) ==
    LET t1 == IF nb # <<>> THEN addToken(toks, Tok("NUMBER", nb)) ELSE toks
    IN  IF wb # <<>> THEN addToken(t1, Tok("FUNCTION", wb)) ELSE t1

\* for i+1 < len(input) && unicode.IsDigit(rune(input[i+1])): the index and
\* the buffer after the loop, and whether it found a digit.  The index k is
\* the 0-based i of the code; input[k] of the code is in[k + 1] here.
RECURSIVE scanExponentDigits(_, _, _, _)
scanExponentDigits(in, k, nb, found) ==
    IF k + 1 < Len(in) /\ IsDigit(in[k + 2])
    THEN scanExponentDigits(in, k + 1, nb \o <<in[k + 2]>>, TRUE)
    ELSE [i |-> k, nb |-> nb, digitsFound |-> found]

scanExponent_NoSign(in, k, nb) ==
    LET k1 == k + 1
        nb1 == nb \o <<in[k1 + 1]>>
    IN  scanExponentDigits(in, k1, nb1, FALSE)

\* The scientific-notation branch, entered with input[i+1] an 'e' or 'E'.
scanExponent(in, k, nb) ==
    LET k1 == k + 1
        nb1 == nb \o <<in[k1 + 1]>>
        signed == k1 + 1 < Len(in) /\ in[k1 + 2] \in {"+", "-"}
        k2 == IF signed THEN k1 + 1 ELSE k1
        nb2 == IF signed THEN nb1 \o <<in[k2 + 1]>> ELSE nb1
    IN  scanExponentDigits(in, k2, nb2, FALSE)

\* for i < len(input) && (IsLetter || IsDigit): the index after the word and
\* the word.
RECURSIVE scanWord(_, _, _)
scanWord(in, k, wb) ==
    IF k < Len(in) /\ (IsLetter(in[k + 1]) \/ IsDigit(in[k + 1]))
    THEN scanWord(in, k + 1, wb \o <<in[k + 1]>>)
    ELSE [i |-> k, wb |-> wb]

ch == input[i + 1]

InLoop == tstage = "scan" /\ i < Len(input)

\* return nil, fmt.Errorf(...)
TokenizeFails(msg) ==
    /\ tokens' = <<>>
    /\ terr' = msg
    /\ tstage' = "error"
    /\ UNCHANGED <<input, i, numberBuffer, wordBuffer>>

ScanNumber_NoExponent ==
    /\ InLoop
    /\ IsDigit(ch) \/ ch = "."
    /\ IF ch = "." /\ containsDot(numberBuffer)
       THEN TokenizeFails("invalid number: multiple decimals")
       ELSE /\ numberBuffer' = numberBuffer \o <<ch>>
            /\ i' = i + 1
            /\ UNCHANGED <<input, tokens, wordBuffer, terr, tstage>>
    /\ UNCHANGED nonTokenizerVars

\* case unicode.IsDigit(ch) || ch == '.'
ScanNumber ==
    /\ InLoop
    /\ IsDigit(ch) \/ ch = "."
    /\ IF ch = "." /\ containsDot(numberBuffer)
       THEN TokenizeFails("invalid number: multiple decimals")
       ELSE LET nb == numberBuffer \o <<ch>> IN
            IF i + 1 < Len(input) /\ input[i + 2] \in {"e", "E"}
            THEN LET e == scanExponent(input, i, nb) IN
                 IF ~e.digitsFound
                 THEN TokenizeFails("invalid exponent in number")
                 ELSE /\ numberBuffer' = e.nb
                      /\ i' = e.i + 1
                      /\ UNCHANGED <<input, tokens, wordBuffer, terr, tstage>>
            ELSE /\ numberBuffer' = nb
                 /\ i' = i + 1
                 /\ UNCHANGED <<input, tokens, wordBuffer, terr, tstage>>
    /\ UNCHANGED nonTokenizerVars

\* case unicode.IsLetter(ch): the word goes to a buffer local to the case and
\* is appended as an IDENT without addToken and without a flush; the inner
\* loop leaves i on the character after the word and the loop's i++ follows.
ScanWord ==
    /\ InLoop
    /\ IsLetter(ch)
    /\ LET w == scanWord(input, i + 1, <<ch>>) IN
           /\ tokens' = Append(tokens, Tok("IDENT", w.wb))
           /\ i' = w.i + 1
    /\ UNCHANGED <<input, numberBuffer, wordBuffer, terr, tstage, nonTokenizerVars>>

\* The cases that flush the buffers and add one token.
ScanFlushing(chars, type) ==
    /\ InLoop
    /\ ch \in chars
    /\ tokens' = addToken(flushBuffers(tokens, numberBuffer, wordBuffer),
                          Tok(type, <<ch>>))
    /\ numberBuffer' = <<>>
    /\ wordBuffer' = <<>>
    /\ i' = i + 1
    /\ UNCHANGED <<input, terr, tstage, nonTokenizerVars>>

\* case ch == '+' || ch == '-' || ch == '*' || ch == '/' || ch == '^'
ScanOperator == ScanFlushing({"+", "-", "*", "/", "^"}, "OPERATOR")

\* case ch == '=': appended without addToken and without a flush
ScanAssign ==
    /\ InLoop
    /\ ch = "="
    /\ tokens' = Append(tokens, Assign)
    /\ i' = i + 1
    /\ UNCHANGED <<input, numberBuffer, wordBuffer, terr, tstage, nonTokenizerVars>>

\* case ch == '(' || ch == ')'
ScanParen == ScanFlushing({"(", ")"}, "PAREN")

\* case ch == '!'
ScanFactorial == ScanFlushing({"!"}, "FUNCTION")

ScanSpace_NoAdvance ==
    /\ InLoop
    /\ IsSpace(ch)
    /\ tokens' = flushBuffers(tokens, numberBuffer, wordBuffer)
    /\ numberBuffer' = <<>>
    /\ wordBuffer' = <<>>
    /\ UNCHANGED <<input, i, terr, tstage, nonTokenizerVars>>

\* case unicode.IsSpace(ch)
ScanSpace ==
    /\ InLoop
    /\ IsSpace(ch)
    /\ tokens' = flushBuffers(tokens, numberBuffer, wordBuffer)
    /\ numberBuffer' = <<>>
    /\ wordBuffer' = <<>>
    /\ i' = i + 1
    /\ UNCHANGED <<input, terr, tstage, nonTokenizerVars>>

\* case ch == ','
ScanComma == ScanFlushing({","}, "OPERATOR")

\* default
ScanInvalid ==
    /\ InLoop
    /\ ~(IsDigit(ch) \/ ch = "." \/ IsLetter(ch) \/ IsSpace(ch))
    /\ ch \notin {"+", "-", "*", "/", "^", "=", "(", ")", "!", ","}
    /\ TokenizeFails("invalid character")
    /\ UNCHANGED nonTokenizerVars

\* After the loop: the remaining buffers are flushed and the tokens returned.
TokenizeReturns ==
    /\ tstage = "scan"
    /\ i >= Len(input)
    /\ tokens' = flushBuffers(tokens, numberBuffer, wordBuffer)
    /\ tstage' = "done"
    /\ UNCHANGED <<input, i, numberBuffer, wordBuffer, terr, nonTokenizerVars>>

Chars == {"1", "2", ".", "e", "x", "+", "(", ")", "!", "=", " ", ",", "@"}

\* Literals in scientific notation, and literals whose exponent has no digit.
Mantissas == {<<"1">>, <<"2">>, <<"1", "2">>, <<"1", ".", "5">>}
Markers == {"e", "E"}
ExponentSigns == {<<>>, <<"+">>, <<"-">>}
ExponentLiterals ==
    {m \o <<e>> \o sg \o d :
        m \in Mantissas, e \in Markers, sg \in ExponentSigns,
        d \in {<<"1">>, <<"2">>, <<"1", "0">>}}
BrokenExponents ==
    {m \o <<e>> \o sg \o r :
        m \in Mantissas, e \in Markers, sg \in ExponentSigns,
        r \in {<<>>, <<" ", "1">>, <<"x">>, <<")">>}}

\* The operators of two characters, alone and between two numbers, and a
\* lone half of one.
ComparisonWords == {<<"=", "=">>, <<"!", "=">>, <<">", "=">>, <<"<", "=">>}
LogicalWords == {<<"&", "&">>, <<"|", "|">>}
OperatorInputs ==
    UNION {{w, <<"1">> \o w \o <<"2">>, <<"x">> \o w \o <<"1">>} :
              w \in ComparisonWords \cup LogicalWords
                      \cup {<<">">>, <<"<">>, <<"=">>, <<"&">>, <<"|">>}}

\* Words: names of functions and other names.
WordInputs ==
    {<<"s", "i", "n">>, <<"c", "o", "s">>, <<"l", "o", "g">>, <<"m", "a", "x">>,
     <<"S", "i", "n">>, <<"v", "a", "r">>, <<"r">>, <<"t", "i", "m", "e">>,
     <<"r", "o", "o", "t">>, <<"s", "i", "n", "(", "1", ")">>,
     <<"s", "i", "n", " ", "x">>, <<"5", "=", "3">>,
     <<"2", "e", "x", "p", "(", "1", ")">>, <<"3", "E">>, <<"2", " ", "e", "x", "p">>}

ExampleInputs ==
    ExponentLiterals \cup BrokenExponents \cup OperatorInputs \cup WordInputs \cup
    {<<"2", "s", "i", "n", "(", "x", ")">>,
     <<"2", "(", "3", "+", "4", ")">>,
     <<"(", "1", ")", "(", "2", ")">>,
     <<"(", "1", ")", " ", "x">>,
     <<"1", ".", "5", "e", "-", "1", "0">>}

TokenizerInputs == SeqsUpTo(Chars, MaxInputLen) \cup ExampleInputs

InitTokenizer ==
    /\ input \in TokenizerInputs
    /\ i = 0
    /\ tokens = <<>>
    /\ numberBuffer = <<>>
    /\ wordBuffer = <<>>
    /\ terr = NoErr
    /\ tstage = "scan"
    /\ ParserOff
    /\ EvaluatorOff
    /\ SessionOff
    /\ ReplOff

NextTokenizer ==
    \/ ScanNumber
    \/ ScanWord
    \/ ScanOperator
    \/ ScanAssign
    \/ ScanParen
    \/ ScanFactorial
    \/ ScanSpace
    \/ ScanComma
    \/ ScanInvalid
    \/ TokenizeReturns

SpecTokenizer == InitTokenizer /\ [][NextTokenizer]_vars

\* The scan loop keeps running until Tokenize returns.
TokenizerLiveInputs == SeqsUpTo(Chars, MaxLiveLen) \cup ExampleInputs

InitTokenizerLive ==
    /\ input \in TokenizerLiveInputs
    /\ i = 0
    /\ tokens = <<>>
    /\ numberBuffer = <<>>
    /\ wordBuffer = <<>>
    /\ terr = NoErr
    /\ tstage = "scan"
    /\ ParserOff
    /\ EvaluatorOff
    /\ SessionOff
    /\ ReplOff

SpecTokenizerLive ==
    InitTokenizerLive /\ [][NextTokenizer]_vars /\ WF_vars(NextTokenizer)

(***************************************************************************)
(* C6.  Implicit multiplication: in the tokens Tokenize returns, a Number  *)
(* or a closing parenthesis is never directly followed by a Number, a      *)
(* Function other than '!', an Identifier or an opening parenthesis: an    *)
(* Operator '*' stands between the two.                                    *)
(***************************************************************************)
LeftOfImplicit(t) ==
    t.Type = "NUMBER" \/ (t.Type = "PAREN" /\ t.Value = <<")">>)

RightOfImplicit(t) ==
    \/ t.Type = "NUMBER"
    \/ (t.Type = "FUNCTION" /\ t.Value # <<"!">>)
    \/ t.Type = "IDENT"
    \/ (t.Type = "PAREN" /\ t.Value = <<"(">>)

C6_ImplicitMultiplication ==
    tstage = "done" =>
        \A k \in 1..(Len(tokens) - 1) :
            ~(LeftOfImplicit(tokens[k]) /\ RightOfImplicit(tokens[k + 1]))

(***************************************************************************)
(* float64 values.  A value is tracked exactly when it is a rational whose *)
(* numerator and denominator stay within Limit; Huge(s) is a finite,       *)
(* integer-valued float of sign s whose magnitude exceeds Limit (170! is   *)
(* one); PosInf, NegInf and NaN are the IEEE specials; Approx is a float   *)
(* the model does not track (an irrational result, a rounded quotient      *)
(* beyond Limit).  Rounding of tracked values is not modelled.  A step     *)
(* that has to decide something about an Approx value yields the           *)
(* pseudo-error Untracked, and no evaluation that does so is explored.     *)
(***************************************************************************)
Limit == 10000

Rat(n, d) == [k |-> "num", n |-> n, d |-> d]
FromInt(n) == Rat(n, 1)
Huge(s) == [k |-> "huge", n |-> s, d |-> 1]
PosInf == [k |-> "inf", n |-> 1, d |-> 1]
NegInf == [k |-> "inf", n |-> -1, d |-> 1]
NaN == [k |-> "nan", n |-> 0, d |-> 1]
Approx == [k |-> "approx", n |-> 0, d |-> 1]
Untracked == "untracked"

Abs(n) == IF n < 0 THEN -n ELSE n
Sign(n) == IF n < 0 THEN -1 ELSE IF n > 0 THEN 1 ELSE 0

RECURSIVE GCD(_, _)
GCD(a, b) == IF b = 0 THEN a ELSE GCD(b, a % b)

\* The float n/d (d # 0) in lowest terms, or what is left of it beyond Limit.
MkRat(n, d) ==
    LET g == GCD(Abs(n), Abs(d))
        nn == (Sign(d) * n) \div g
        dd == Abs(d) \div g
    IN  IF Abs(nn) <= Limit /\ dd <= Limit THEN Rat(nn, dd)
        ELSE IF dd = 1 THEN Huge(Sign(nn))
        ELSE Approx

IsNum(v) == v.k = "num"
Known(v) == v.k # "approx"
IsZero(v) == IsNum(v) /\ v.n = 0
IsNegative(v) == v.k \in {"num", "huge", "inf"} /\ v.n < 0
IsInteger(v) == (IsNum(v) /\ v.d = 1) \/ v.k \in {"huge", "inf"}

\* -x, x + y, x - y, x * y and x / y (y # 0) of float64.
Negate(x) ==
    IF x.k \in {"num", "huge", "inf"} THEN [x EXCEPT !.n = -x.n] ELSE x

Add(x, y) ==
    IF IsNum(x) /\ IsNum(y) THEN MkRat(x.n * y.d + y.n * x.d, x.d * y.d)
    ELSE Approx

Sub(x, y) ==
    IF IsNum(x) /\ IsNum(y) THEN MkRat(x.n * y.d - y.n * x.d, x.d * y.d)
    ELSE Approx

Mul(x, y) ==
    IF IsNum(x) /\ IsNum(y) THEN MkRat(x.n * y.n, x.d * y.d)
    ELSE Approx

Quo(x, y) ==
    IF IsNum(x) /\ IsNum(y) /\ y.n # 0 THEN MkRat(x.n * y.d, x.d * y.n)
    ELSE IF IsNum(x) /\ y.k \in {"huge", "inf"} /\ x.n = 0 THEN x
    ELSE Approx

\* math.Floor on a tracked number.
Floor(x) == IF IsNum(x) THEN FromInt(x.n \div x.d) ELSE x

Zero == FromInt(0)
One == FromInt(1)

\* x < y and x > y of float64, for a tracked number y.
Less(x, y) ==
    CASE IsNum(x) -> x.n * y.d < y.n * x.d
      [] x.k \in {"huge", "inf"} -> x.n < 0
      [] OTHER -> FALSE

Greater(x, y) ==
    CASE IsNum(x) -> x.n * y.d > y.n * x.d
      [] x.k \in {"huge", "inf"} -> x.n > 0
      [] OTHER -> FALSE

(***************************************************************************)
(* strconv.ParseFloat on the text of a NUMBER token: digits with at most   *)
(* one dot and at least one digit, then optionally e or E, an optional     *)
(* sign and at least one digit, and nothing else.                          *)
(***************************************************************************)
DigitChars == <<"0", "1", "2", "3", "4", "5", "6", "7", "8", "9">>
DigitVal(c) == (CHOOSE k \in 1..10 : DigitChars[k] = c) - 1
IsDecimalDigit(c) == \E k \in 1..10 : DigitChars[k] = c

\* The first index of e or E in s, 0 when there is none.
ExponentAt(s) ==
    IF \E k \in 1..Len(s) : s[k] \in {"e", "E"}
    THEN CHOOSE k \in 1..Len(s) :
            /\ s[k] \in {"e", "E"}
            /\ \A j \in 1..(k - 1) : s[j] \notin {"e", "E"}
    ELSE 0

\* The value of a digit string, saturating once it is beyond Limit.
RECURSIVE DigitsValue(_, _)
DigitsValue(ds, acc) ==
    IF ds = <<>> \/ acc > Limit THEN acc
    ELSE DigitsValue(Tail(ds), acc * 10 + DigitVal(Head(ds)))

\* 10^e, saturating once it is beyond Limit.
RECURSIVE Pow10(_, _)
Pow10(e, acc) ==
    IF e = 0 \/ acc > Limit THEN acc ELSE Pow10(e - 1, acc * 10)

ParseFloat(s) ==
    LET ep == ExponentAt(s)
        mant == IF ep = 0 THEN s ELSE SubSeq(s, 1, ep - 1)
        expo == IF ep = 0 THEN <<>> ELSE SubSeq(s, ep + 1, Len(s))
        signed == expo # <<>> /\ Head(expo) \in {"+", "-"}
        expDigits == IF signed THEN Tail(expo) ELSE expo
        dots == {k \in 1..Len(mant) : mant[k] = "."}
        mantDigits == SelectSeq(mant, IsDecimalDigit)
        mantOK == /\ \A k \in 1..Len(mant) :
                        IsDecimalDigit(mant[k]) \/ mant[k] = "."
                  /\ Cardinality(dots) <= 1
                  /\ mantDigits # <<>>
        expOK == ep = 0 \/ (/\ expDigits # <<>>
                            /\ \A k \in 1..Len(expDigits) :
                                    IsDecimalDigit(expDigits[k]))
        fracLen == IF dots = {} THEN 0
                   ELSE Len(mant) - (CHOOSE k \in dots : TRUE)
        m == DigitsValue(mantDigits, 0)
        e == DigitsValue(expDigits, 0)
        e10 == (IF signed /\ Head(expo) = "-" THEN -e ELSE e) - fracLen
        scale == Pow10(Abs(e10), 1)
    IN  IF ~(mantOK /\ expOK) THEN [val |-> Zero, err |-> "syntax"]
        ELSE IF m = 0 THEN [val |-> Zero, err |-> NoErr]
        \* beyond the largest float64, about 1.8e308: ErrRange
        ELSE IF e10 >= 309 THEN [val |-> PosInf, err |-> "range"]
        ELSE IF Len(mantDigits) + e10 > 300
             THEN [val |-> Approx, err |-> Untracked]
        ELSE IF m > Limit \/ e > Limit \/ scale > Limit
             THEN [val |-> Approx, err |-> NoErr]
        ELSE IF e10 >= 0 THEN [val |-> MkRat(m * scale, 1), err |-> NoErr]
        ELSE [val |-> MkRat(m, scale), err |-> NoErr]

(***************************************************************************)
(* The functions of package math the evaluator calls, on tracked values;   *)
(* a result that is not a tracked rational is Approx.                      *)
(***************************************************************************)
\* arg1 * math.Pi / 180
Radians(x) ==
    CASE IsZero(x) -> Zero
      [] x.k \in {"inf", "nan"} -> x
      [] OTHER -> Approx

\* v * 180 / math.Pi
Degrees(x) == Radians(x)

Sin(x) ==
    CASE IsZero(x) -> Zero
      [] x.k \in {"inf", "nan"} -> NaN
      [] OTHER -> Approx

Cos(x) ==
    CASE IsZero(x) -> One
      [] x.k \in {"inf", "nan"} -> NaN
      [] OTHER -> Approx

Tan(x) == Sin(x)

Asin(x) ==
    CASE IsZero(x) -> Zero
      [] ~Known(x) -> Approx
      [] IsNum(x) /\ ~Less(x, FromInt(-1)) /\ ~Greater(x, One) -> Approx
      [] OTHER -> NaN

Acos(x) ==
    CASE x = One -> Zero
      [] ~Known(x) -> Approx
      [] IsNum(x) /\ ~Less(x, FromInt(-1)) /\ ~Greater(x, One) -> Approx
      [] OTHER -> NaN

Atan(x) ==
    CASE IsZero(x) -> Zero
      [] x.k = "nan" -> NaN
      [] OTHER -> Approx

Log(x) ==
    CASE x = One -> Zero
      [] IsZero(x) -> NegInf
      [] x.k = "nan" \/ IsNegative(x) -> NaN
      [] x = PosInf -> PosInf
      [] OTHER -> Approx

Log10(x) == Log(x)

IsSquare(n) == \E r \in 0..100 : r * r = n
SquareRoot(n) == CHOOSE r \in 0..100 : r * r = n

Sqrt(x) ==
    CASE x.k = "nan" \/ IsNegative(x) -> NaN
      [] x = PosInf -> PosInf
      [] IsNum(x) /\ IsSquare(x.n) /\ IsSquare(x.d) ->
            Rat(SquareRoot(x.n), SquareRoot(x.d))
      [] OTHER -> Approx

Exp(x) ==
    CASE IsZero(x) -> One
      [] x.k = "nan" -> NaN
      [] x.k \in {"huge", "inf"} -> IF x.n > 0 THEN PosInf ELSE Zero
      [] IsNum(x) /\ ~Less(x, FromInt(710)) -> PosInf
      [] IsNum(x) /\ Less(x, FromInt(-746)) -> Zero
      [] OTHER -> Approx

AbsF(x) ==
    IF x.k \in {"num", "huge", "inf"} THEN [x EXCEPT !.n = Abs(x.n)] ELSE x

Ceil(x) == IF IsNum(x) THEN FromInt(-((-x.n) \div x.d)) ELSE x

Max(x, y) ==
    CASE x.k = "nan" \/ y.k = "nan" -> NaN
      [] x = PosInf \/ y = PosInf -> PosInf
      [] IsNum(x) /\ IsNum(y) -> IF Less(x, y) THEN y ELSE x
      [] OTHER -> Approx

Min(x, y) ==
    CASE x.k = "nan" \/ y.k = "nan" -> NaN
      [] x = NegInf \/ y = NegInf -> NegInf
      [] IsNum(x) /\ IsNum(y) -> IF Less(y, x) THEN y ELSE x
      [] OTHER -> Approx

\* x^n for a tracked x and n >= 0, by repeated multiplication.
RECURSIVE IntPow(_, _, _)
IntPow(x, n, acc) ==
    IF n = 0 \/ ~IsNum(acc) THEN (IF n = 0 THEN acc ELSE Approx)
    ELSE IntPow(x, n - 1, Mul(acc, x))

\* math.Pow.  The model's zero is +0.
Pow(x, y) ==
    CASE IsZero(y) \/ x = One -> One
      [] x.k = "nan" \/ y.k = "nan" -> NaN
      [] ~(IsNum(x) /\ IsNum(y)) -> Approx
      [] IsZero(x) -> IF y.n < 0 THEN PosInf ELSE Zero
      [] y.d # 1 -> IF x.n < 0 THEN NaN ELSE Approx
      [] x = FromInt(-1) -> IF y.n % 2 = 0 THEN One ELSE x
      [] y.n > 0 -> IntPow(x, y.n, One)
      [] OTHER -> LET r == IntPow(x, -y.n, One)
                  IN  IF IsNum(r) THEN Quo(One, r) ELSE Approx

(***************************************************************************)
(* Package evaluator.  A call returns Ret(val, err).                       *)
(***************************************************************************)
MaxFactorial == 170

Ret(val, err) == [val |-> val, err |-> err]
Failed(r) == r.err # NoErr

\* result *= float64(i) for i = j..n.  Once the product is beyond Limit it
\* stays Huge: it is an integer and finite up to 170!.
RECURSIVE factorialLoop(_, _, _)
factorialLoop(result, j, n) ==
    IF j > n \/ ~IsNum(result) THEN result
    ELSE factorialLoop(Mul(result, FromInt(j)), j + 1, n)

factorial(n) ==
    IF ~Known(n) THEN Ret(Approx, Untracked)
    ELSE IF IsNegative(n) \/ ~IsInteger(n)
    THEN Ret(Zero, "factorial only defined for non-negative integers")
    ELSE IF ~IsNum(n) \/ n.n > MaxFactorial
    THEN Ret(Zero, "factorial too large")
    ELSE Ret(factorialLoop(One, 2, n.n), NoErr)

EvalOperator_NoZeroCheck(op, left, right) ==
    CASE op = <<"+">> -> Ret(Add(left, right), NoErr)
      [] op = <<"-">> -> Ret(Sub(left, right), NoErr)
      [] op = <<"*">> -> Ret(Mul(left, right), NoErr)
      [] op = <<"/">> -> Ret(Quo(left, right), NoErr)
      [] op = <<"^">> -> Ret(Pow(left, right), NoErr)
      [] OTHER -> Ret(Zero, "unknown operator")

\* The switch on node.Value of a binary operator node.
EvalOperator(op, left, right) ==
    CASE op = <<"+">> -> Ret(Add(left, right), NoErr)
      [] op = <<"-">> -> Ret(Sub(left, right), NoErr)
      [] op = <<"*">> -> Ret(Mul(left, right), NoErr)
      [] op = <<"/">> ->
            IF ~Known(right) THEN Ret(Approx, Untracked)
            ELSE IF IsZero(right) THEN Ret(Zero, "division by zero")
            ELSE Ret(Quo(left, right), NoErr)
      [] op = <<"^">> -> Ret(Pow(left, right), NoErr)
      [] OTHER -> Ret(Zero, "unknown operator")

\* math.Mod(arg1, 180) == 90; the result of Mod has the sign of arg1.
AtAsymptote(x) == IsNum(x) /\ x.d = 1 /\ x.n >= 0 /\ x.n % 180 = 90

\* The one-argument cases of the switch on the function name.
EvalFunction1(name, arg1) ==
    CASE name = <<"s", "i", "n">> -> Ret(Sin(Radians(arg1)), NoErr)
      [] name = <<"c", "o", "s">> -> Ret(Cos(Radians(arg1)), NoErr)
      [] name = <<"t", "a", "n">> ->
            IF arg1.k \in {"approx", "huge"} THEN Ret(Approx, Untracked)
            ELSE IF AtAsymptote(arg1) THEN Ret(Zero, "tan: undefined (asymptote)")
            ELSE Ret(Tan(Radians(arg1)), NoErr)
      [] name = <<"a", "s", "i", "n">> ->
            IF ~Known(arg1) THEN Ret(Approx, Untracked)
            ELSE IF Less(arg1, FromInt(-1)) \/ Greater(arg1, One)
            THEN Ret(Zero, "asin: domain error")
            ELSE Ret(Degrees(Asin(arg1)), NoErr)
      [] name = <<"a", "c", "o", "s">> ->
            IF ~Known(arg1) THEN Ret(Approx, Untracked)
            ELSE IF Less(arg1, FromInt(-1)) \/ Greater(arg1, One)
            THEN Ret(Zero, "acos: domain error")
            ELSE Ret(Degrees(Acos(arg1)), NoErr)
      [] name = <<"a", "t", "a", "n">> -> Ret(Degrees(Atan(arg1)), NoErr)
      [] name = <<"l", "o", "g">> ->
            IF ~Known(arg1) THEN Ret(Approx, Untracked)
            ELSE IF IsZero(arg1) \/ Less(arg1, Zero)
            THEN Ret(Zero, "log: domain error")
            ELSE Ret(Log(arg1), NoErr)
      [] name = <<"l", "o", "g", "1", "0">> ->
            IF ~Known(arg1) THEN Ret(Approx, Untracked)
            ELSE IF IsZero(arg1) \/ Less(arg1, Zero)
            THEN Ret(Zero, "log10: domain error")
            ELSE Ret(Log10(arg1), NoErr)
      [] name = <<"s", "q", "r", "t">> ->
            IF ~Known(arg1) THEN Ret(Approx, Untracked)
            ELSE IF Less(arg1, Zero) THEN Ret(Zero, "sqrt: domain error")
            ELSE Ret(Sqrt(arg1), NoErr)
      [] name = <<"e", "x", "p">> ->
            IF ~Known(arg1) THEN Ret(Approx, Untracked)
            ELSE IF Greater(arg1, FromInt(709)) THEN Ret(Zero, "exp: overflow error")
            ELSE Ret(Exp(arg1), NoErr)
      [] name = <<"a", "b", "s">> -> Ret(AbsF(arg1), NoErr)
      [] name = <<"c", "e", "i", "l">> -> Ret(Ceil(arg1), NoErr)
      [] name = <<"f", "l", "o", "o", "r">> -> Ret(Floor(arg1), NoErr)
      [] name = <<"!">> -> factorial(arg1)

\* The cases "pow", "max" and "min" once both arguments are evaluated.
EvalFunction2(name, arg1, arg2) ==
    CASE name = <<"p", "o", "w">> ->
            IF ~Known(arg1) \/ ~Known(arg2) THEN Ret(Approx, Untracked)
            ELSE IF IsZero(arg1) /\ Less(arg2, Zero)
            THEN Ret(Zero, "pow: domain error - 0 raised to negative power")
            ELSE IF Less(arg1, Zero) /\ ~IsInteger(arg2)
            THEN Ret(Zero, "pow: domain error - negative base with non-integer exponent")
            ELSE LET result == Pow(arg1, arg2)
                 IN  IF ~Known(result) THEN Ret(Approx, Untracked)
                     ELSE IF result.k = "inf"
                     THEN Ret(Zero, "pow: overflow error")
                     ELSE Ret(result, NoErr)
      [] name = <<"m", "a", "x">> -> Ret(Max(arg1, arg2), NoErr)
      [] name = <<"m", "i", "n">> -> Ret(Min(arg1, arg2), NoErr)

OneArgument ==
    {<<"s", "i", "n">>, <<"c", "o", "s">>, <<"t", "a", "n">>,
     <<"a", "s", "i", "n">>, <<"a", "c", "o", "s">>, <<"a", "t", "a", "n">>,
     <<"l", "o", "g">>, <<"l", "o", "g", "1", "0">>, <<"s", "q", "r", "t">>,
     <<"e", "x", "p">>, <<"a", "b", "s">>, <<"c", "e", "i", "l">>,
     <<"f", "l", "o", "o", "r">>, <<"!">>}
TwoArguments == {<<"p", "o", "w">>, <<"m", "a", "x">>, <<"m", "i", "n">>}
Negation == <<"n", "e", "g">>

RECURSIVE Eval(_)
Eval(node) ==
    IF IsNil(node) THEN Ret(Zero, "Invalid")
    ELSE CASE node.Type = "NODE_NUMBER" ->
            LET r == ParseFloat(node.Value)
            IN  IF r.err = Untracked THEN Ret(Approx, Untracked)
                ELSE IF Failed(r) THEN Ret(Zero, "invalid number")
                ELSE Ret(r.val, NoErr)
      [] node.Type = "NODE_OPERATOR" ->
            IF node.Value = Negation
            THEN LET left == Eval(node.Left)
                 IN  IF Failed(left) THEN Ret(Zero, left.err)
                     ELSE Ret(Negate(left.val), NoErr)
            ELSE LET left == Eval(node.Left)
                     right == Eval(node.Right)
                 IN  IF Failed(left) THEN Ret(Zero, left.err)
                     ELSE IF Failed(right) THEN Ret(Zero, right.err)
                     ELSE EvalOperator(node.Value, left.val, right.val)
      [] node.Type = "NODE_FUNCTION" ->
            IF Len(node.Children) < 1
            THEN Ret(Zero, "function requires at least 1 argument")
            ELSE LET arg1 == Eval(node.Children[1])
                 IN  IF Failed(arg1) THEN Ret(Zero, arg1.err)
                     ELSE IF node.Value \in OneArgument
                     THEN EvalFunction1(node.Value, arg1.val)
                     ELSE IF node.Value \in TwoArguments
                     THEN IF Len(node.Children) < 2
                          THEN Ret(Zero, "function requires 2 arguments")
                          ELSE LET arg2 == Eval(node.Children[2])
                               IN  IF Failed(arg2) THEN Ret(Zero, arg2.err)
                                   ELSE EvalFunction2(node.Value, arg1.val,
                                                      arg2.val)
                     ELSE Ret(Zero, "unknown function")
      [] OTHER -> Ret(Zero, "invalid node type")

(***************************************************************************)
(* Eval of src/evaluator/evaluator.go: no case for unary negation, no      *)
(* domain checks, and a factorial case of its own.                         *)
(***************************************************************************)
EvalFunction1_evaluator_go(name, arg1) ==
    CASE name = <<"s", "i", "n">> -> Ret(Sin(Radians(arg1)), NoErr)
      [] name = <<"c", "o", "s">> -> Ret(Cos(Radians(arg1)), NoErr)
      [] name = <<"t", "a", "n">> -> Ret(Tan(Radians(arg1)), NoErr)
      [] name = <<"a", "s", "i", "n">> -> Ret(Degrees(Asin(arg1)), NoErr)
      [] name = <<"a", "c", "o", "s">> -> Ret(Degrees(Acos(arg1)), NoErr)
      [] name = <<"a", "t", "a", "n">> -> Ret(Degrees(Atan(arg1)), NoErr)
      [] name = <<"l", "o", "g">> -> Ret(Log(arg1), NoErr)
      [] name = <<"l", "o", "g", "1", "0">> -> Ret(Log10(arg1), NoErr)
      [] name = <<"s", "q", "r", "t">> -> Ret(Sqrt(arg1), NoErr)
      [] name = <<"e", "x", "p">> -> Ret(Exp(arg1), NoErr)
      [] name = <<"a", "b", "s">> -> Ret(AbsF(arg1), NoErr)
      [] name = <<"c", "e", "i", "l">> -> Ret(Ceil(arg1), NoErr)
      [] name = <<"f", "l", "o", "o", "r">> -> Ret(Floor(arg1), NoErr)
      [] name = <<"!">> ->
            LET r == factorial(arg1)
            IN  IF r.err = Untracked THEN r
                ELSE IF Failed(r) THEN Ret(Zero, NoErr)
                ELSE Ret(r.val, NoErr)

EvalFunction2_evaluator_go(name, arg1, arg2) ==
    CASE name = <<"p", "o", "w">> -> Ret(Pow(arg1, arg2), NoErr)
      [] name = <<"m", "a", "x">> -> Ret(Max(arg1, arg2), NoErr)
      [] name = <<"m", "i", "n">> -> Ret(Min(arg1, arg2), NoErr)

RECURSIVE Eval_evaluator_go(_)
Eval_evaluator_go(node) ==
    IF IsNil(node) THEN Ret(Zero, "Invalid")
    ELSE CASE node.Type = "NODE_NUMBER" ->
            LET r == ParseFloat(node.Value)
            IN  IF r.err = Untracked THEN Ret(Approx, Untracked)
                ELSE IF Failed(r) THEN Ret(Zero, "invalid number")
                ELSE Ret(r.val, NoErr)
      [] node.Type = "NODE_OPERATOR" ->
            LET left == Eval_evaluator_go(node.Left)
                right == Eval_evaluator_go(node.Right)
            IN  IF Failed(left) THEN Ret(Zero, left.err)
                ELSE IF Failed(right) THEN Ret(Zero, right.err)
                ELSE EvalOperator(node.Value, left.val, right.val)
      [] node.Type = "NODE_FUNCTION" ->
            IF Len(node.Children) < 1
            THEN Ret(Zero, "function requires at least 1 argument")
            ELSE LET arg1 == Eval_evaluator_go(node.Children[1])
                 IN  IF Failed(arg1) THEN Ret(Zero, arg1.err)
                     ELSE IF node.Value \in OneArgument
                     THEN EvalFunction1_evaluator_go(node.Value, arg1.val)
                     ELSE IF node.Value \in TwoArguments
                     THEN IF Len(node.Children) < 2
                          THEN Ret(Zero, "function requires 2 arguments")
                          ELSE LET arg2 == Eval_evaluator_go(node.Children[2])
                               IN  IF Failed(arg2) THEN Ret(Zero, arg2.err)
                                   ELSE EvalFunction2_evaluator_go(
                                            node.Value, arg1.val, arg2.val)
                     ELSE Ret(Zero, "unknown function")
      [] OTHER -> Ret(Zero, "invalid node type")

(***************************************************************************)
(* The evaluator run: one call of Eval on the tree ParseExpression builds  *)
(* from a token sequence.  Eval is the later evaluator, Eval_evaluator_go  *)
(* the one of src/evaluator/evaluator.go.                                  *)
(***************************************************************************)
MaxEvalLen == 3     \* every token sequence up to this length is evaluated

Number(s) == Tok("NUMBER", s)

EvalAtoms ==
    {Number(<<"0">>), Number(<<"2">>), Number(<<"5">>),
     Number(<<"3", ".", "5">>)}

\* Literals around the limit of factorial, and literals ParseFloat rejects
\* or scales.
EvalLiterals ==
    EvalAtoms \cup
    {Number(<<"1">>), Number(<<"7">>), Number(<<"8">>),
     Number(<<"1", "7", "0">>), Number(<<"1", "7", "1">>),
     Number(<<"1", "7", "0", ".", "5">>), Number(<<"1", "e", "2">>),
     Number(<<"2", "5", "e", "-", "1">>), Number(<<"1", "e", "9">>),
     Number(<<"0", ".", "0">>), Number(<<".">>), Number(<<"1", "e">>),
     Number(<<"1", ".", "2", ".", "3">>), Number(<<"9", "0">>),
     Number(<<"7", "1", "0">>), Number(<<"1", "e", "4", "0", "0">>),
     Number(<<"1", "e", "-", "4", "0", "0">>)}

ArithOps == {Op("+"), Op("-"), Op("*"), Op("/")}
Bang == Func(<<"!">>)

\* Operand expressions: a literal, (a op b), (-a), a!, a!!, a^b and a^(-b).
EvalOperands ==
    {<<a>> : a \in EvalLiterals}
    \cup {<<LP, a, o, b, RP>> : a \in EvalAtoms, b \in EvalAtoms, o \in ArithOps}
    \cup {<<LP, Op("-"), a, RP>> : a \in EvalLiterals}
    \cup {<<a, Bang>> : a \in EvalLiterals}
    \cup {<<a, Bang, Bang>> : a \in EvalAtoms}
    \cup {<<a, Op("^"), b>> : a \in EvalAtoms, b \in EvalAtoms}
    \cup {<<a, Op("^"), LP, Op("-"), b, RP>> : a \in EvalAtoms, b \in EvalAtoms}

\* Numerators: a literal or a difference of two.
EvalNumerators ==
    {<<a>> : a \in EvalLiterals}
    \cup {<<LP, a, Op("-"), b, RP>> : a \in EvalAtoms, b \in EvalAtoms}

FunctionNames == OneArgument \cup TwoArguments \cup {<<"f">>}

EvalAlphabet ==
    {Number(<<"0">>), Number(<<"2">>), Ident("x"), Op("+"), Op("-"), Op("*"),
     Op("/"), Op("^"), LP, RP, Bang, Func(<<"m", "a", "x">>)}

EvalInputs ==
    SeqsUpTo(EvalAlphabet, MaxEvalLen)
    \cup EvalOperands
    \* a quotient of two operand expressions
    \cup {l \o <<Op("/")>> \o r : l \in EvalNumerators, r \in EvalOperands}
    \* the factorial of an operand expression
    \cup {e \o <<Bang>> : e \in EvalOperands}
    \* the other operators, on literals
    \cup {<<a, o, b>> : a \in EvalLiterals, b \in EvalLiterals,
                        o \in ArithOps \cup {Op("^")}}
    \* function calls with no, one and two arguments,
    \cup {<<Func(f), LP, RP>> : f \in FunctionNames \ {<<"!">>}}
    \cup {<<Func(f), LP>> \o e \o <<RP>> :
            f \in FunctionNames \ {<<"!">>}, e \in EvalOperands}
    \cup {<<Func(f), LP, a, Op(","), b, RP>> :
            f \in FunctionNames \ {<<"!">>}, a \in EvalAtoms, b \in EvalAtoms}
    \* and with three
    \cup {<<Func(f), LP, a, Op(","), b, Op(","), c, RP>> :
            f \in FunctionNames \ {<<"!">>}, a \in EvalAtoms, b \in EvalAtoms,
            c \in {Number(<<"2">>), Number(<<"3", ".", "5">>)}}

\* The trees Eval is called on: what ParseExpression returns for the inputs.
EvalNodes ==
    {ParseExpression(t).node : t \in {u \in EvalInputs : ParseExpression(u).err = NoErr}}

InitEval ==
    /\ evalNode \in EvalNodes
    /\ evalVal = NoVal
    /\ evalErr = NoErr
    /\ estage = "ready"
    /\ ParserOff
    /\ TokenizerOff
    /\ SessionOff
    /\ ReplOff

Returns(r) ==
    /\ r.err # Untracked
    /\ evalVal' = r.val
    /\ evalErr' = r.err
    /\ estage' = "done"
    /\ UNCHANGED <<evalNode, parserVars, tokenizerVars, sessionVars, replVars>>

DoEval == estage = "ready" /\ Returns(Eval(evalNode))

DoEval_evaluator_go == estage = "ready" /\ Returns(Eval_evaluator_go(evalNode))

NextEval == DoEval
SpecEval == InitEval /\ [][NextEval]_vars

NextEval_evaluator_go == DoEval_evaluator_go
SpecEval_evaluator_go == InitEval /\ [][NextEval_evaluator_go]_vars

IsQuotient(n) == n.Type = "NODE_OPERATOR" /\ n.Value = <<"/">>
IsFactorial(n) ==
    n.Type = "NODE_FUNCTION" /\ n.Value = <<"!">> /\ Len(n.Children) = 1

(***************************************************************************)
(* C9.  Division by zero is an error, never a value: when both operands of *)
(* a / node evaluate and the right one is zero, Eval returns the error     *)
(* "division by zero"; when the right one is a non-zero number and the     *)
(* left one is zero, Eval returns 0 and no error.                          *)
(***************************************************************************)
C9_DivisionByZero ==
    (estage = "done" /\ IsQuotient(evalNode)) =>
        LET left == Eval(evalNode.Left)
            right == Eval(evalNode.Right)
        IN  (~Failed(left) /\ ~Failed(right)) =>
                /\ IsZero(right.val) =>
                        evalErr = "division by zero" /\ evalVal = Zero
                /\ (right.val.k \in {"num", "huge", "inf"} /\ ~IsZero(right.val)
                        /\ IsZero(left.val)) =>
                        evalErr = NoErr /\ evalVal = Zero

\* A quotient whose divisor is computed, not a literal, and is zero.
C9_Witness ==
    /\ estage = "done"
    /\ IsQuotient(evalNode)
    /\ evalNode.Right.Type = "NODE_OPERATOR"
    /\ ~Failed(Eval(evalNode.Left))
    /\ ~Failed(Eval(evalNode.Right))
    /\ IsZero(Eval(evalNode.Right).val)
    /\ evalErr = "division by zero"

(***************************************************************************)
(* C10.  Factorial is defined exactly on the integers 0..170: when the     *)
(* operand of a ! node evaluates to n, Eval returns a value and no error   *)
(* if n is an integer with 0 <= n <= 170, and an error otherwise; it never *)
(* returns a number with no error for an operand outside 0..170.           *)
(***************************************************************************)
InFactorialDomain(v) ==
    IsNum(v) /\ v.d = 1 /\ 0 <= v.n /\ v.n <= MaxFactorial

C10_FactorialDomain ==
    (estage = "done" /\ IsFactorial(evalNode)) =>
        LET arg == Eval_evaluator_go(evalNode.Children[1])
        IN  ~Failed(arg) =>
                (evalErr = NoErr <=> InFactorialDomain(arg.val))

(***************************************************************************)
(* The evaluator with a variable environment, evaluate(node, env, consts). *)
(* Its Go source is not part of the repository snapshot; it is modelled    *)
(* from the design document: a recursive tree walk, left to right, that    *)
(* fails fast, and whose only mutation is the write into env at an         *)
(* assignment node.  env is the process-wide map Vars, written in place,   *)
(* so a call returns the environment it leaves behind: Out(val, err, env). *)
(***************************************************************************)
Out(val, err, env) == [val |-> val, err |-> err, env |-> env]

\* constants.Table as loaded at startup, and constants.Get.
Table ==
    (<<"p", "i">> :> Approx) @@ (<<"e">> :> Approx) @@ (<<"c">> :> Huge(1))

Bound(env, name) == name \in DOMAIN env

resolve_ConstantsFirst(name, env, consts) ==
    IF name \in DOMAIN consts THEN Ret(consts[name], NoErr)
    ELSE IF Bound(env, name) THEN Ret(env[name], NoErr)
    ELSE Ret(Zero, "undefined variable")

\* An identifier resolves first against env, then against consts.
resolve(name, env, consts) ==
    IF Bound(env, name) THEN Ret(env[name], NoErr)
    ELSE IF name \in DOMAIN consts THEN Ret(consts[name], NoErr)
    ELSE Ret(Zero, "undefined variable")

Truth_Operand(b) == IF b THEN FromInt(2) ELSE Zero

\* The value of a comparison or logical node: 1.0 for true, 0.0 for false.
Truth(b) == IF b THEN One ELSE Zero

store_Dropped(env, name, val) == env

\* env[name] = val
store(env, name, val) ==
    [n \in DOMAIN env \cup {name} |-> IF n = name THEN val ELSE env[n]]

\* How x and y compare: "lt", "eq", "gt", "un" when one of them is NaN, and
\* "unknown" when the model does not track it.
Order(x, y) ==
    CASE x.k = "nan" \/ y.k = "nan" -> "un"
      [] ~Known(x) \/ ~Known(y) -> "unknown"
      [] IsNum(y) -> IF Less(x, y) THEN "lt"
                     ELSE IF Greater(x, y) THEN "gt" ELSE "eq"
      [] IsNum(x) -> IF y.n > 0 THEN "lt" ELSE "gt"
      [] x.n # y.n -> IF x.n < y.n THEN "lt" ELSE "gt"
      [] x.k = "inf" /\ y.k = "inf" -> "eq"
      [] x.k = "inf" -> IF x.n > 0 THEN "gt" ELSE "lt"
      [] y.k = "inf" -> IF y.n > 0 THEN "lt" ELSE "gt"
      [] OTHER -> "unknown"

\* A comparison node on two evaluated operands: 1.0 or 0.0.
compare(op, x, y) ==
    LET o == Order(x, y) IN
    IF o = "unknown" THEN Ret(Approx, Untracked)
    ELSE CASE op = <<">">> -> Ret(Truth(o = "gt"), NoErr)
           [] op = <<"<">> -> Ret(Truth(o = "lt"), NoErr)
           [] op = <<">", "=">> -> Ret(Truth(o \in {"gt", "eq"}), NoErr)
           [] op = <<"<", "=">> -> Ret(Truth(o \in {"lt", "eq"}), NoErr)
           [] op = <<"=", "=">> -> Ret(Truth(o = "eq"), NoErr)
           [] op = <<"!", "=">> -> Ret(Truth(o # "eq"), NoErr)
           [] OTHER -> Ret(Zero, "unknown operator")

\* "Truthy" is any non-zero value.
Truthy(x) == ~IsZero(x)

\* A binary operator node on two evaluated operands; ^ reports an infinite
\* or undefined power as an error.
binaryOp(op, left, right) ==
    IF op = <<"^">> THEN EvalFunction2(<<"p", "o", "w">>, left, right)
    ELSE EvalOperator(op, left, right)

Statistical ==
    {<<"s", "u", "m">>, <<"p", "r", "o", "d", "u", "c", "t">>,
     <<"m", "e", "a", "n">>, <<"m", "e", "d", "i", "a", "n">>,
     <<"m", "o", "d", "e">>}
NaturalLog == <<"l", "n">>

RECURSIVE Sum(_)
Sum(vals) == IF vals = <<>> THEN Zero ELSE Add(Head(vals), Sum(Tail(vals)))

RECURSIVE Product(_)
Product(vals) ==
    IF vals = <<>> THEN One ELSE Mul(Head(vals), Product(Tail(vals)))

AllNumbers(vals) == \A k \in 1..Len(vals) : IsNum(vals[k])

\* The middle of the sorted values, or the mean of the two middle ones.
Median(vals) ==
    LET sorted == SortSeq(vals, Less)
        n == Len(vals)
    IN  IF n % 2 = 1 THEN sorted[(n + 1) \div 2]
        ELSE Quo(Add(sorted[n \div 2], sorted[n \div 2 + 1]), FromInt(2))

\* The first value to reach the maximum frequency.
Mode(vals) ==
    LET count(k) == Cardinality({j \in 1..k : vals[j] = vals[k]})
        most == CHOOSE c \in {count(k) : k \in 1..Len(vals)} :
                    \A k \in 1..Len(vals) : count(k) <= c
        first == CHOOSE k \in 1..Len(vals) :
                    /\ count(k) = most
                    /\ \A j \in 1..(k - 1) : count(j) < most
    IN  vals[first]

\* The dispatch of a function call on its name, the arguments evaluated.
applyFunction(name, vals) ==
    CASE name = NaturalLog -> EvalFunction1(<<"l", "o", "g">>, vals[1])
      [] name \in OneArgument -> EvalFunction1(name, vals[1])
      [] name \in TwoArguments -> EvalFunction2(name, vals[1], vals[2])
      [] name = <<"s", "u", "m">> -> Ret(Sum(vals), NoErr)
      [] name = <<"p", "r", "o", "d", "u", "c", "t">> -> Ret(Product(vals), NoErr)
      [] name = <<"m", "e", "a", "n">> ->
            Ret(Quo(Sum(vals), FromInt(Len(vals))), NoErr)
      [] name = <<"m", "e", "d", "i", "a", "n">> ->
            IF AllNumbers(vals) THEN Ret(Median(vals), NoErr)
            ELSE Ret(Approx, Untracked)
      [] name = <<"m", "o", "d", "e">> ->
            IF AllNumbers(vals) THEN Ret(Mode(vals), NoErr)
            ELSE Ret(Approx, Untracked)

\* The number of arguments a call of `name` takes: TRUE when n is accepted.
arityAccepts(name, n) ==
    CASE name \in OneArgument \cup {NaturalLog} -> n = 1
      [] name \in TwoArguments -> n = 2
      [] name \in Statistical -> n >= 1

RECURSIVE evaluate(_, _, _), evaluateArgs(_, _, _, _)

\* The arguments of a call, left to right: the values, or the first error.
evaluateArgs(nodes, vals, env, consts) ==
    IF nodes = <<>> THEN Out(vals, NoErr, env)
    ELSE LET arg == evaluate(Head(nodes), env, consts)
         IN  IF Failed(arg) THEN Out(vals, arg.err, arg.env)
             ELSE evaluateArgs(Tail(nodes), Append(vals, arg.val), arg.env,
                               consts)

evaluate(node, env, consts) ==
    IF IsNil(node) THEN Out(Zero, "Invalid", env)
    ELSE CASE node.Type = "NODE_NUMBER" ->
            LET r == ParseFloat(node.Value)
            IN  IF r.err = Untracked THEN Out(Approx, Untracked, env)
                ELSE IF Failed(r) THEN Out(Zero, "invalid literal", env)
                ELSE Out(r.val, NoErr, env)
      [] node.Type = "NODE_IDENTIFIER" ->
            LET r == resolve(node.Value, env, consts)
            IN  Out(r.val, r.err, env)
      [] node.Type = "NODE_ASSIGN" ->
            LET right == evaluate(node.Right, env, consts)
            IN  IF Failed(right) THEN Out(Zero, right.err, right.env)
                ELSE Out(right.val, NoErr,
                         store(right.env, node.Value, right.val))
      [] node.Type = "NODE_OPERATOR" /\ node.Value = Negation ->
            LET left == evaluate(node.Left, env, consts)
            IN  IF Failed(left) THEN Out(Zero, left.err, left.env)
                ELSE Out(Negate(left.val), NoErr, left.env)
      [] node.Type \in {"NODE_OPERATOR", "NODE_COMPARISON", "NODE_AND",
                        "NODE_OR"} ->
            LET left == evaluate(node.Left, env, consts)
                right == evaluate(node.Right, left.env, consts)
                r == CASE node.Type = "NODE_OPERATOR" ->
                            binaryOp(node.Value, left.val, right.val)
                       [] node.Type = "NODE_COMPARISON" ->
                            compare(node.Value, left.val, right.val)
                       [] ~Known(left.val) \/ ~Known(right.val) ->
                            Ret(Approx, Untracked)
                       [] node.Type = "NODE_AND" ->
                            Ret(Truth(Truthy(left.val) /\ Truthy(right.val)),
                                NoErr)
                       [] node.Type = "NODE_OR" ->
                            Ret(Truth(Truthy(left.val) \/ Truthy(right.val)),
                                NoErr)
            IN  IF Failed(left) THEN Out(Zero, left.err, left.env)
                ELSE IF Failed(right) THEN Out(Zero, right.err, right.env)
                ELSE Out(r.val, r.err, right.env)
      [] node.Type = "NODE_FUNCTION" ->
            IF node.Value \notin
                    OneArgument \cup TwoArguments \cup Statistical
                    \cup {NaturalLog}
            THEN Out(Zero, "unknown function", env)
            ELSE IF ~arityAccepts(node.Value, Len(node.Children))
            THEN Out(Zero, "wrong number of arguments", env)
            ELSE LET args == evaluateArgs(node.Children, <<>>, env, consts)
                     r == applyFunction(node.Value, args.val)
                 IN  IF Failed(args) THEN Out(Zero, args.err, args.env)
                     ELSE Out(r.val, r.err, args.env)
      [] OTHER -> Out(Zero, "invalid node type", env)

(***************************************************************************)
(* The session: the read-eval-print loop of main, one step per line.  A    *)
(* line is the token sequence handed to the parser; Vars lives as long as  *)
(* the process.                                                            *)
(***************************************************************************)
MaxLines == 3       \* lines entered in one session

X == Ident("x")
Y == Ident("y")
Z == Ident("z")
Pi == Tok("IDENT", <<"p", "i">>)
Slash == Op("/")
Plus == Op("+")

LineValues == {Number(<<"0">>), Number(<<"5">>), Number(<<"2", ".", "5">>)}

SessionLines ==
    \* assignments of a literal, to a variable or over a constant
    {<<n, Assign, v>> : n \in {X, Y, Pi}, v \in LineValues}
    \* reads
    \cup {<<X>>, <<Y>>, <<Z>>, <<Pi>>, <<Tok("IDENT", <<"c">>)>>,
          <<X, Plus, Number(<<"5">>)>>,
          <<X, Op("*"), Y>>, <<Y, Slash, X>>, <<Number(<<"5">>), Plus,
          Number(<<"5">>)>>, <<X, Bang>>, <<X, Cmp(<<">">>), Y>>,
          <<X, Logical(<<"&", "&">>), Y>>, <<Op("-"), X>>,
          <<Func(<<"m", "a", "x">>), LP, X, Op(","), Y, RP>>}
    \* assignments of an expression
    \cup {<<X, Assign, X, Plus, Number(<<"5">>)>>, <<X, Assign, Y>>,
          <<Y, Assign, X>>, <<X, Assign, Pi>>, <<Y, Assign, X, Slash, Y>>,
          <<X, Assign, Op("-"), Y>>}
    \* assignments whose right-hand side fails
    \cup {<<n, Assign, Number(<<"5">>), Slash, Number(<<"0">>)>> : n \in {X, Y}}
    \cup {<<X, Assign, Z>>, <<X, Assign, Number(<<"1", "7", "1">>), Bang>>,
          <<Y, Assign, Number(<<"2", ".", "5">>), Bang>>}
    \* assignments nested in an expression
    \cup {<<LP, X, Assign, v, RP>> : v \in LineValues}
    \cup {<<X, Assign, LP, Y, Assign, Number(<<"5">>), RP, Slash, v>> :
            v \in LineValues}
    \cup {<<LP, X, Assign, Number(<<"5">>), RP, Slash, v>> : v \in LineValues}
    \cup {<<Y, Assign, LP, X, Assign, Number(<<"0">>), RP, Plus, X>>}
    \* lines the parser rejects
    \cup {<<X, Assign>>, <<Assign, Number(<<"5">>)>>,
          <<X, Assign, Y, Assign, Number(<<"5">>)>>, <<>>}

\* What ParseExpression returns for each line.
ParsedLines == [toks \in SessionLines |-> ParseExpression(toks)]

InitSession ==
    /\ Vars = <<>>
    /\ line = <<>>
    /\ lineVal = NoVal
    /\ lineErr = NoErr
    /\ nlines = 0
    /\ sstage = "prompt"
    /\ ParserOff
    /\ TokenizerOff
    /\ EvaluatorOff
    /\ ReplOff

\* One iteration of the loop on an expression line: parse, evaluate, print.
\* (The history file the loop writes is followed in SpecRepl.)
EnterLine(toks) ==
    /\ sstage = "prompt"
    /\ nlines < MaxLines
    /\ line' = toks
    /\ nlines' = nlines + 1
    /\ LET p == ParsedLines[toks] IN
       IF p.err # NoErr
       THEN /\ lineErr' = p.err
            /\ lineVal' = NoVal
            /\ Vars' = Vars
       ELSE LET r == evaluate(p.node, Vars, Table) IN
            /\ r.err # Untracked
            /\ lineErr' = r.err
            /\ lineVal' = IF Failed(r) THEN NoVal ELSE r.val
            /\ Vars' = r.env
    /\ UNCHANGED <<sstage, parserVars, tokenizerVars, evaluatorVars, replVars>>

Next == \E toks \in SessionLines : EnterLine(toks)
Spec == InitSession /\ [][Next]_vars

Names == {<<"x">>, <<"y">>, <<"p", "i">>}

\* The line contains `name =`, at the top level or nested.
Assigns(toks, name) ==
    \E k \in 1..(Len(toks) - 1) :
        toks[k] = Tok("IDENT", name) /\ toks[k + 1] = Assign

\* The line is `name = rhs`.
IsAssignmentTo(toks, name) ==
    Len(toks) >= 2 /\ toks[1] = Tok("IDENT", name) /\ toks[2] = Assign

(***************************************************************************)
(* C7.  Variable persistence.  In every step of a session: a line          *)
(* `name = rhs` that evaluates successfully returns the value it binds     *)
(* name to, which for a literal rhs is the value of the literal; a line    *)
(* that does not assign name leaves its binding as it was; and the line    *)
(* `name` returns the binding.  Hence `name` returns v from a successful   *)
(* `name = v` until the next assignment to name.                           *)
(***************************************************************************)
C7_VariablePersistence ==
    [][\A name \in Names :
        /\ (IsAssignmentTo(line', name) /\ lineErr' = NoErr) =>
                /\ Bound(Vars', name)
                /\ Vars'[name] = lineVal'
                /\ (Len(line') = 3 /\ line'[3].Type = "NUMBER") =>
                        lineVal' = ParseFloat(line'[3].Value).val
        /\ (~Assigns(line', name) /\ Bound(Vars, name)) =>
                Bound(Vars', name) /\ Vars'[name] = Vars[name]
        /\ (line' = <<Tok("IDENT", name)>> /\ Bound(Vars, name)) =>
                lineErr' = NoErr /\ lineVal' = Vars[name]
      ]_vars

\* `x` returns 2.5 as the third line or later: x was assigned 2.5 and another
\* line came in between.
C7_Witness ==
    /\ nlines >= 3
    /\ line = <<X>>
    /\ lineErr = NoErr
    /\ lineVal = Rat(5, 2)
    /\ Bound(Vars, <<"y">>)

(***************************************************************************)
(* C8.  A failing assignment leaves the variable environment unchanged:    *)
(* when a line `name = rhs` returns an error, Vars has exactly the         *)
(* bindings it had before the line, assignments nested in rhs included.    *)
(***************************************************************************)
C8_FailedAssignmentKeepsEnv ==
    [][\A name \in Names :
        (IsAssignmentTo(line', name) /\ lineErr' # NoErr) => Vars' = Vars
      ]_vars

(***************************************************************************)
(* One call of evaluate, on the tree of a token sequence and in an         *)
(* environment the session can have built.                                 *)
(***************************************************************************)
Minus == Op("-")

\* Operands of comparisons and logical operators: zero, positive, negative
\* and fractional literals, and the variable x.
Truths ==
    {<<Number(<<"0">>)>>, <<Number(<<"5">>)>>, <<Number(<<"3">>)>>,
     <<Number(<<"2", ".", "5">>)>>, <<Minus, Number(<<"5">>)>>,
     <<Minus, Number(<<"0">>)>>, <<X>>}

EvaluateInputs ==
    \* one comparison or logical operator
    {a \o <<o>> \o b : a \in Truths, b \in Truths,
                       o \in CmpOps \cup AndOps \cup OrOps}
    \* a logical operator over two comparisons, and an assigned result
    \cup {<<LP>> \o a \o <<o1>> \o b \o <<RP, o, LP>> \o a \o <<o2>> \o b \o <<RP>> :
            a \in {<<Number(<<"5">>)>>, <<X>>}, b \in {<<Number(<<"3">>)>>},
            o1 \in CmpOps, o2 \in CmpOps, o \in AndOps \cup OrOps}
    \cup {<<Y, Assign>> \o a \o <<o>> \o b :
            a \in Truths, b \in {<<Number(<<"3">>)>>, <<Number(<<"0">>)>>},
            o \in CmpOps \cup AndOps \cup OrOps}
    \* an operand that fails or that assigns
    \cup {a \o <<o>> \o b : a \in {<<Z>>, <<Number(<<"5">>), Slash, Number(<<"0">>)>>},
                            b \in {<<Number(<<"0">>)>>, <<LP, Y, Assign, Number(<<"5">>), RP>>},
                            o \in CmpOps \cup AndOps \cup OrOps}
    \cup {<<LP, X, Assign, Number(<<"0">>), RP, o, X>> : o \in CmpOps \cup AndOps \cup OrOps}
    \* identifiers, bound, constant and unknown, and assignments to them
    \cup {<<n>> : n \in {X, Y, Z, Pi, Tok("IDENT", <<"c">>)}}
    \cup {<<n, Assign, v>> : n \in {X, Pi}, v \in LineValues}
    \cup {<<n, Plus, Number(<<"5">>)>> : n \in {X, Z, Tok("IDENT", <<"c">>)}}

EvaluateNodes ==
    {ParseExpression(t).node :
        t \in {u \in EvaluateInputs : ParseExpression(u).err = NoErr}}

\* Environments: empty, x bound, and a constant's name bound as well.
Environments ==
    {<<>>} \cup {(<<"x">> :> v) : v \in {Zero, FromInt(5), Rat(-5, 2)}}
    \cup {(<<"x">> :> FromInt(3)) @@ (<<"p", "i">> :> FromInt(5))}

InitEvaluate ==
    /\ evalNode \in EvaluateNodes
    /\ evalVal = NoVal
    /\ evalErr = NoErr
    /\ estage = "ready"
    /\ Vars \in Environments
    /\ line = <<>>
    /\ lineVal = NoVal
    /\ lineErr = NoErr
    /\ nlines = 0
    /\ sstage = "off"
    /\ ParserOff
    /\ TokenizerOff
    /\ ReplOff

DoEvaluate ==
    /\ estage = "ready"
    /\ LET r == evaluate(evalNode, Vars, Table) IN
            /\ r.err # Untracked
            /\ evalVal' = r.val
            /\ evalErr' = r.err
            /\ Vars' = r.env
    /\ estage' = "done"
    /\ UNCHANGED <<evalNode, line, lineVal, lineErr, nlines, sstage,
                   parserVars, tokenizerVars, replVars>>

NextEvaluate == DoEvaluate
SpecEvaluate == InitEvaluate /\ [][NextEvaluate]_vars

IsComparison(n) == n.Type = "NODE_COMPARISON"
IsLogical(n) == n.Type \in {"NODE_AND", "NODE_OR"}

(***************************************************************************)
(* C11.  A comparison or logical node that evaluates without error yields  *)
(* exactly 1 or exactly 0; a logical node yields 1 exactly when both (&&)  *)
(* or at least one (||) of its operands is non-zero, and a comparison      *)
(* yields 1 exactly when the relation holds between its operands.          *)
(***************************************************************************)
C11_BooleanResults ==
    [][(estage' = "done" /\ evalErr' = NoErr
            /\ (IsComparison(evalNode) \/ IsLogical(evalNode))) =>
        LET l == evaluate(evalNode.Left, Vars, Table)
            r == evaluate(evalNode.Right, l.env, Table)
            nonzero(v) == v # Zero
            lt == l.val.n * r.val.d < r.val.n * l.val.d
            eq == l.val = r.val
            holds ==
                CASE evalNode.Type = "NODE_AND" -> nonzero(l.val) /\ nonzero(r.val)
                  [] evalNode.Type = "NODE_OR" -> nonzero(l.val) \/ nonzero(r.val)
                  [] evalNode.Value = <<"<">> -> lt
                  [] evalNode.Value = <<"<", "=">> -> lt \/ eq
                  [] evalNode.Value = <<">">> -> ~lt /\ ~eq
                  [] evalNode.Value = <<">", "=">> -> ~lt
                  [] evalNode.Value = <<"=", "=">> -> eq
                  [] evalNode.Value = <<"!", "=">> -> ~eq
        IN  /\ evalVal' \in {Zero, One}
            /\ (IsNum(l.val) /\ IsNum(r.val)) => (evalVal' = One <=> holds)
      ]_vars

\* -5 && 3 has been evaluated, to 1.
C11_Witness ==
    /\ estage = "done"
    /\ evalNode.Type = "NODE_AND"
    /\ evalNode.Left.Type = "NODE_OPERATOR"
    /\ evalNode.Left.Value = Negation
    /\ evalNode.Right.Value = <<"3">>
    /\ evalErr = NoErr
    /\ evalVal = One

(***************************************************************************)
(* C12.  Identifier resolution order.  In every step of a session the line *)
(* `name` returns the binding of name in Vars when there is one, otherwise *)
(* its value in the constant table, otherwise the error "undefined         *)
(* variable", and leaves Vars as it was; and a successful assignment to    *)
(* the name of a constant binds that name in Vars, so that the name then   *)
(* reads as the assigned value while the other constants still read as     *)
(* their table values.                                                     *)
(***************************************************************************)
ReadNames == Names \cup {<<"z">>, <<"c">>}

C12_IdentifierResolution ==
    [][\A name \in ReadNames :
        /\ line' = <<Tok("IDENT", name)>> =>
                /\ Vars' = Vars
                /\ IF name \in DOMAIN Vars
                   THEN lineErr' = NoErr /\ lineVal' = Vars[name]
                   ELSE IF name \in DOMAIN Table
                   THEN lineErr' = NoErr /\ lineVal' = Table[name]
                   ELSE lineErr' = "undefined variable"
        /\ (name \in DOMAIN Table /\ IsAssignmentTo(line', name)
                /\ lineErr' = NoErr) =>
                name \in DOMAIN Vars' /\ Vars'[name] = lineVal'
      ]_vars

\* `pi` reads as 5, the value assigned to it, not as the constant.
C12_Witness ==
    /\ line = <<Pi>>
    /\ lineErr = NoErr
    /\ lineVal = FromInt(5)
    /\ lineVal # Table[<<"p", "i">>]

(***************************************************************************)
(* C13.  ParseExpression fails with no tree, that is with an error and a   *)
(* nil AST, on the empty token sequence, on a sequence that ends with a    *)
(* binary operator or with `=`, on a sequence that is one operator or      *)
(* starts with `*`, `/` or `^`, and on a sequence with more opening than   *)
(* closing parentheses (a group or a call that is never closed).           *)
(***************************************************************************)
Count(toks, t) == Cardinality({k \in 1..Len(toks) : toks[k] = t})

EndsWithOperator(toks) ==
    Len(toks) > 0 /\ toks[Len(toks)] \in BinaryOps \cup {Assign}

OnlyOperator(toks) == Len(toks) = 1 /\ toks[1] \in BinaryOps \cup {Assign}

StartsWithOperator(toks) ==
    Len(toks) > 0 /\ toks[1] \in MulOps \cup PowOps

Unclosed(toks) == Count(toks, LP) > Count(toks, RP)

MissingOperand(toks) ==
    \/ Len(toks) = 0
    \/ EndsWithOperator(toks)
    \/ OnlyOperator(toks)
    \/ StartsWithOperator(toks)
    \/ Unclosed(toks)

C13_FailsWithoutTree ==
    (pstage = "done" /\ MissingOperand(Tokens)) => (perr # NoErr /\ ast = Nil)

\* `( 2 + 2` : the group is never closed.
C13_Witness ==
    /\ pstage = "done"
    /\ Tokens = <<LP, Num("2"), Op("+"), Num("2")>>
    /\ perr = "unmatched opening parenthesis"
    /\ ast = Nil

(***************************************************************************)
(* C14.  ParseExpression succeeds only when every token was consumed: a    *)
(* tree without error comes with pos = Len(Tokens), and when the top-level *)
(* expression ends before the last token (`2 )`, `x = x = 2`, `2 , 2`)     *)
(* the result is an error and a nil AST.                                   *)
(***************************************************************************)
Leftover(toks) ==
    Len(toks) > 0 /\
    LET r == parseAssignment(toks, 0) IN r.err = NoErr /\ r.pos < Len(toks)

TrailingExamples ==
    {<<a, RP>> : a \in Operands}
    \cup {<<a, Op(","), b>> : a \in Operands, b \in Operands}
    \cup {<<Ident("x"), Assign, a, Assign, b>> : a \in Operands, b \in Operands}

C14_AllTokensConsumed ==
    pstage = "done" =>
        /\ (perr = NoErr /\ ast # Nil) => pos = Len(Tokens)
        /\ (Leftover(Tokens) \/ Tokens \in TrailingExamples) =>
                (perr # NoErr /\ ast = Nil)

\* `x = x = 2` stops at the second `=`.
C14_Witness ==
    /\ pstage = "done"
    /\ Tokens = <<Ident("x"), Assign, Ident("x"), Assign, Num("2")>>
    /\ perr = "unexpected token"
    /\ pos = 3
    /\ ast = Nil

(***************************************************************************)
(* C15.  A call with the wrong number of arguments is an error in both     *)
(* directions: Eval of a function node of a known function with fewer or   *)
(* with more children than the function takes returns an error, so no      *)
(* extra argument is silently ignored.                                     *)
(***************************************************************************)
Arity(f) == IF f \in TwoArguments THEN 2 ELSE 1

IsCall(n) ==
    n.Type = "NODE_FUNCTION" /\ n.Value \in OneArgument \cup TwoArguments

C15_ArityChecked ==
    (estage = "done" /\ IsCall(evalNode)
            /\ Len(evalNode.Children) # Arity(evalNode.Value)) =>
        evalErr # NoErr

(***************************************************************************)
(* C20.  The ^ operator never returns a non-finite or undefined value:     *)
(* when both operands of a ^ node evaluate, Eval returns an error if the   *)
(* base is 0 and the exponent negative, or the base negative and the       *)
(* exponent not an integer, and a result without error is never an         *)
(* infinity or NaN.                                                        *)
(***************************************************************************)
IsPower(n) == n.Type = "NODE_OPERATOR" /\ n.Value = <<"^">>

C20_PowerChecked ==
    (estage = "done" /\ IsPower(evalNode)) =>
        LET left  == Eval(evalNode.Left)
            right == Eval(evalNode.Right)
        IN  (~Failed(left) /\ ~Failed(right)) =>
                /\ (IsZero(left.val) /\ IsNegative(right.val)) => evalErr # NoErr
                /\ (IsNegative(left.val) /\ Known(right.val)
                        /\ ~IsInteger(right.val)) => evalErr # NoErr
                /\ evalErr = NoErr => evalVal \notin {PosInf, NegInf, NaN}

(***************************************************************************)
(* C16.  Tokenize preserves the order of the input: in every successful    *)
(* result the lexemes of the tokens, those of the inserted '*' apart,      *)
(* stand in the input in the order of the tokens, so that the characters   *)
(* of the tokens, read in output order, form a subsequence of the input    *)
(* (`2x` yields 2 before x, `5=3` yields 5, =, 3).                         *)
(***************************************************************************)
RECURSIVE Lexemes(_)
Lexemes(toks) ==
    IF toks = <<>> THEN <<>>
    ELSE IF Head(toks) = Op("*") THEN Lexemes(Tail(toks))
    ELSE Head(toks).Value \o Lexemes(Tail(toks))

RECURSIVE IsSubsequence(_, _)
IsSubsequence(s, t) ==
    IF s = <<>> THEN TRUE
    ELSE IF t = <<>> THEN FALSE
    ELSE IF Head(s) = Head(t) THEN IsSubsequence(Tail(s), Tail(t))
    ELSE IsSubsequence(s, Tail(t))

HasStar(in) == \E k \in 1..Len(in) : in[k] = "*"

C16_InputOrder ==
    (tstage = "done" /\ ~HasStar(input)) => IsSubsequence(Lexemes(tokens), input)

(***************************************************************************)
(* C17.  The operators of two characters are matched greedily: `==`, `!=`, *)
(* `>=`, `<=` each give one Comparison token and `&&`, `||` one Logical    *)
(* token, alone and between two numbers, and a single `&` or `|` makes     *)
(* Tokenize return an error.                                               *)
(***************************************************************************)
OperatorToken(w) ==
    IF w \in LogicalWords THEN Logical(w) ELSE Cmp(w)

C17_GreedyOperators ==
    tstage \in {"done", "error"} =>
        /\ \A w \in ComparisonWords \cup LogicalWords :
            /\ input = w => (terr = NoErr /\ tokens = <<OperatorToken(w)>>)
            /\ input = <<"1">> \o w \o <<"2">> =>
                    /\ terr = NoErr
                    /\ tokens = <<Number(<<"1">>), OperatorToken(w), Number(<<"2">>)>>
        /\ input \in {<<"1", "&", "2">>, <<"1", "|", "2">>, <<"&">>, <<"|">>} =>
                terr # NoErr

(***************************************************************************)
(* C18.  Word classification: an input that is one run of letters becomes  *)
(* exactly one token, a FUNCTION when the word is the name of a function   *)
(* (sin, cos, log, max, ...; case-sensitive) and an IDENT otherwise (var,  *)
(* r, time, root, x).                                                      *)
(***************************************************************************)
ReservedNames == (OneArgument \cup TwoArguments) \ {<<"!">>}

IsWord(in) == Len(in) > 0 /\ \A k \in 1..Len(in) : IsLetter(in[k])

C18_WordClassification ==
    (tstage = "done" /\ IsWord(input)) =>
        tokens = <<Tok(IF input \in ReservedNames THEN "FUNCTION" ELSE "IDENT",
                       input)>>

(***************************************************************************)
(* C19.  Exponent scanning: a step of Tokenize on a digit that is directly *)
(* followed by `e` or `E` takes the marker, at most one sign and all the   *)
(* digits after it into the number buffer, and returns an error and no     *)
(* tokens when no digit follows the marker or its sign; a literal in       *)
(* scientific notation becomes one NUMBER token that holds the whole       *)
(* literal.                                                                *)
(***************************************************************************)
\* The number of digits of in from the 1-based position k on.
RECURSIVE DigitRun(_, _)
DigitRun(in, k) ==
    IF k <= Len(in) /\ IsDigit(in[k]) THEN 1 + DigitRun(in, k + 1) ELSE 0

C19_ExponentScanning ==
    [][(/\ tstage = "scan" /\ i + 1 < Len(input)
        /\ IsDigit(input[i + 1]) /\ input[i + 2] \in Markers) =>
          LET sgn == IF i + 2 < Len(input) /\ input[i + 3] \in {"+", "-"}
                     THEN 1 ELSE 0
              n == DigitRun(input, i + 3 + sgn)
          IN  /\ n = 0 => (tstage' = "error" /\ terr' # NoErr /\ tokens' = <<>>)
              /\ n > 0 =>
                    /\ tstage' = "scan" /\ terr' = NoErr /\ tokens' = tokens
                    /\ numberBuffer' =
                         numberBuffer \o SubSeq(input, i + 1, i + 2 + sgn + n)
                    /\ i' = i + 2 + sgn + n
                    /\ input \in ExponentLiterals =>
                         flushBuffers(tokens', numberBuffer', wordBuffer')
                             = <<Number(input)>>
      ]_vars

\* `1.5e-10` is one NUMBER token.
C19_Witness ==
    /\ tstage = "done"
    /\ input = <<"1", ".", "5", "e", "-", "1", "0">>
    /\ terr = NoErr
    /\ tokens = <<Number(input)>>

(***************************************************************************)
(* C21.  Nested unary negation: a token sequence of n >= 1 signs `-`       *)
(* followed by a number parses without error to the number under n neg     *)
(* nodes (`--5`, `---5`), and `- a * - b` parses to (neg a) * (neg b).     *)
(***************************************************************************)
IsNegated(toks) ==
    /\ Len(toks) >= 2
    /\ toks[Len(toks)].Type = "NUMBER"
    /\ \A k \in 1..(Len(toks) - 1) : toks[k] = Op("-")

RECURSIVE Negated(_, _)
Negated(n, tree) == IF n = 0 THEN tree ELSE Neg(Negated(n - 1, tree))

C21_NestedNegation ==
    (pstage = "done" /\ IsNegated(Tokens)) =>
        Parsed(Negated(Len(Tokens) - 1, Leaf(Tokens[Len(Tokens)])))

(***************************************************************************)
(* C22.  tan is an error at every odd multiple of 90 degrees: when the     *)
(* argument of a tan node evaluates to a number x, Eval returns an error   *)
(* exactly when x = 90 * (2k + 1) for an integer k, positive or negative.  *)
(***************************************************************************)
IsTan(n) ==
    n.Type = "NODE_FUNCTION" /\ n.Value = <<"t", "a", "n">> /\ Len(n.Children) = 1

OddMultipleOf90(v) == IsNum(v) /\ v.d = 1 /\ v.n % 180 = 90

C22_TanAsymptotes ==
    (estage = "done" /\ IsTan(evalNode)) =>
        LET arg == Eval(evalNode.Children[1])
        IN  (~Failed(arg) /\ IsNum(arg.val)) =>
                (evalErr # NoErr <=> OddMultipleOf90(arg.val))

(***************************************************************************)
(* Package settings: the display precision and its setter.                 *)
(***************************************************************************)
Set_Unchecked(prec, p) == [Precision |-> p, err |-> NoErr]

\* settings.Set(p) with Precision = prec: the new Precision and the error.
Set(prec, p) ==
    IF p < MinPrecision \/ p > MaxPrecision
    THEN [Precision |-> prec, err |-> "precision must be between 0 and 20"]
    ELSE [Precision |-> p, err |-> NoErr]

PrecisionArgs == (MinPrecision - PrecisionMargin)..(MaxPrecision + PrecisionMargin)

InitSettings ==
    /\ historyFile = Absent
    /\ Precision = DefaultPrecision
    /\ setArg = DefaultPrecision
    /\ setErr = NoErr
    /\ replLine = <<>>
    /\ replVal = NoVal
    /\ replErr = NoErr
    /\ saveErr = NoErr
    /\ ioFault = "none"
    /\ replCount = 0
    /\ rstage = "settings"
    /\ ParserOff
    /\ TokenizerOff
    /\ EvaluatorOff
    /\ SessionOff

CallSet(p) ==
    /\ rstage = "settings"
    /\ LET r == Set(Precision, p) IN
           /\ Precision' = r.Precision
           /\ setErr' = r.err
    /\ setArg' = p
    /\ UNCHANGED <<historyFile, replLine, replVal, replErr, saveErr, ioFault,
                   replCount, rstage, parserVars, tokenizerVars, evaluatorVars,
                   sessionVars>>

NextSettings == \E p \in PrecisionArgs : CallSet(p)

SpecSettings == InitSettings /\ [][NextSettings]_vars

(***************************************************************************)
(* C24.  The display precision stays within 0..20: it starts at 6, after   *)
(* any sequence of settings.Set calls 0 <= Precision <= 20, Set(p) with    *)
(* p < 0 or p > 20 returns an error and leaves Precision unchanged, and    *)
(* Set(p) with 0 <= p <= 20 returns nil and makes Precision equal to p.    *)
(***************************************************************************)
C24_PrecisionRange ==
    /\ Precision = 6
    /\ [](0 <= Precision /\ Precision <= 20)
    /\ [][IF setArg' < 0 \/ setArg' > 20
          THEN setErr' # NoErr /\ Precision' = Precision
          ELSE setErr' = NoErr /\ Precision' = setArg'
        ]_vars

\* Set(21) after Set(20): an error, and Precision is still 20.
C24_Witness ==
    /\ rstage = "settings"
    /\ setArg = 21
    /\ setErr # NoErr
    /\ Precision = 20

(***************************************************************************)
(* Tokenize as one call: the result of the scan loop, (tokens, error),     *)
(* computed case by case as the actions of SpecTokenizer do step by step.  *)
(***************************************************************************)
TokenizeError(msg) == [tokens |-> <<>>, err |-> msg]

RECURSIVE tokenizeFrom(_, _, _, _, _)
tokenizeFrom(in, k, toks, nb, wb) ==
    IF k >= Len(in)
    THEN [tokens |-> flushBuffers(toks, nb, wb), err |-> NoErr]
    ELSE
    LET c == in[k + 1]
        flushed == flushBuffers(toks, nb, wb)
    IN  CASE IsDigit(c) \/ c = "." ->
               IF c = "." /\ containsDot(nb)
               THEN TokenizeError("invalid number: multiple decimals")
               ELSE LET nb1 == nb \o <<c>> IN
                    IF k + 1 < Len(in) /\ in[k + 2] \in {"e", "E"}
                    THEN LET e == scanExponent(in, k, nb1) IN
                         IF ~e.digitsFound
                         THEN TokenizeError("invalid exponent in number")
                         ELSE tokenizeFrom(in, e.i + 1, toks, e.nb, wb)
                    ELSE tokenizeFrom(in, k + 1, toks, nb1, wb)
          [] IsLetter(c) ->
               LET w == scanWord(in, k + 1, <<c>>) IN
               tokenizeFrom(in, w.i + 1, Append(toks, Tok("IDENT", w.wb)), nb, wb)
          [] c \in {"+", "-", "*", "/", "^"} ->
               tokenizeFrom(in, k + 1, addToken(flushed, Tok("OPERATOR", <<c>>)),
                            <<>>, <<>>)
          [] c = "=" ->
               tokenizeFrom(in, k + 1, Append(toks, Assign), nb, wb)
          [] c \in {"(", ")"} ->
               tokenizeFrom(in, k + 1, addToken(flushed, Tok("PAREN", <<c>>)),
                            <<>>, <<>>)
          [] c = "!" ->
               tokenizeFrom(in, k + 1, addToken(flushed, Tok("FUNCTION", <<c>>)),
                            <<>>, <<>>)
          [] IsSpace(c) ->
               tokenizeFrom(in, k + 1, flushed, <<>>, <<>>)
          [] c = "," ->
               tokenizeFrom(in, k + 1, addToken(flushed, Tok("OPERATOR", <<c>>)),
                            <<>>, <<>>)
          [] OTHER -> TokenizeError("invalid character")

Tokenize(in) == tokenizeFrom(in, 0, <<>>, <<>>, <<>>)

\* The step-by-step scan and the single call return the same.
TokenizeAgrees ==
    tstage \in {"done", "error"} =>
        Tokenize(input) = [tokens |-> tokens, err |-> terr]

(***************************************************************************)
(* The REPL: startREPL reads a line, trims it and dispatches on it; an     *)
(* expression line goes through Tokenize, ParseExpression and Eval, and a  *)
(* result is printed and passed to history.AddHistory.                     *)
(***************************************************************************)
\* strings.TrimSpace
RECURSIVE TrimLeft(_)
TrimLeft(str) ==
    IF str # <<>> /\ IsSpace(Head(str)) THEN TrimLeft(Tail(str)) ELSE str

RECURSIVE TrimRight(_)
TrimRight(str) ==
    IF str # <<>> /\ IsSpace(str[Len(str)])
    THEN TrimRight(SubSeq(str, 1, Len(str) - 1))
    ELSE str

TrimSpace(str) == TrimRight(TrimLeft(str))

\* strings.HasPrefix
HasPrefix(str, prefix) ==
    Len(str) >= Len(prefix) /\ SubSeq(str, 1, Len(prefix)) = prefix

\* strings.Fields: the maximal runs of characters other than white space.
RECURSIVE fieldsFrom(_, _, _)
fieldsFrom(str, fields, word) ==
    IF str = <<>>
    THEN IF word = <<>> THEN fields ELSE Append(fields, word)
    ELSE IF IsSpace(Head(str))
    THEN fieldsFrom(Tail(str), IF word = <<>> THEN fields ELSE Append(fields, word),
                    <<>>)
    ELSE fieldsFrom(Tail(str), fields, Append(word, Head(str)))

Fields(str) == fieldsFrom(str, <<>>, <<>>)

\* strconv.Atoi: an optional sign and one or more decimal digits.
RECURSIVE digitsToInt(_, _)
digitsToInt(ds, acc) ==
    IF ds = <<>> THEN acc
    ELSE digitsToInt(Tail(ds), acc * 10 + DigitVal(Head(ds)))

Atoi(str) ==
    LET signed == str # <<>> /\ Head(str) \in {"+", "-"}
        ds == IF signed THEN Tail(str) ELSE str
    IN  IF ds = <<>> \/ \E k \in 1..Len(ds) : ~IsDecimalDigit(ds[k])
        THEN [val |-> 0, err |-> "invalid syntax"]
        ELSE [val |-> IF signed /\ Head(str) = "-"
                      THEN -digitsToInt(ds, 0) ELSE digitsToInt(ds, 0),
              err |-> NoErr]

\* JsonFloat.MarshalJSON: an infinity or NaN is written as a JSON string,
\* any other result as a JSON number.
MarshalJSON(v) ==
    CASE v = PosInf -> [json |-> "string", text |-> "+inf", v |-> NoVal]
      [] v = NegInf -> [json |-> "string", text |-> "-inf", v |-> NoVal]
      [] v = NaN -> [json |-> "string", text |-> "NaN", v |-> NoVal]
      [] OTHER -> [json |-> "number", text |-> "", v |-> v]

\* The JSON object of an Entry.
Marshal(entry) ==
    [expression |-> entry.Expression, result |-> MarshalJSON(entry.Result)]

\* json.Unmarshal(data, &history): JsonFloat has no UnmarshalJSON, so a
\* result that is a JSON string is a type error.
Unmarshal(data) ==
    IF \E k \in 1..Len(data) : data[k].result.json # "number"
    THEN [history |-> <<>>, err |-> "json: cannot unmarshal string"]
    ELSE [history |-> [k \in 1..Len(data) |->
                          [Expression |-> data[k].expression,
                           Result |-> data[k].result.v]],
          err |-> NoErr]

\* json.MarshalIndent(history, "", "  ")
MarshalIndent(history) == [k \in 1..Len(history) |-> Marshal(history[k])]

IOFaults == {"none", "read", "create", "write", "write truncated"}

\* history.AddHistory(input, result) on the file `file`, with the file
\* operation io failing: the file it leaves, the error it returns and the
\* fault that happened.  os.Create leaves an empty file behind; a failed
\* write leaves the file as it was or, with "write truncated", empty.
AddHistory(file, in, result, io) ==
    IF file.exists /\ io = "read"
    THEN [file |-> file, err |-> "read error", fault |-> "read"]
    ELSE IF ~file.exists /\ io = "create"
    THEN [file |-> file, err |-> "create error", fault |-> "create"]
    ELSE
    LET data == file.data
        decoded == IF Len(data) > 0 THEN Unmarshal(data)
                   ELSE [history |-> <<>>, err |-> NoErr]
    IN  IF decoded.err # NoErr
        THEN [file |-> File(data), err |-> decoded.err, fault |-> "none"]
        ELSE LET entry == [Expression |-> in, Result |-> result]
                 updatedContent == MarshalIndent(Append(decoded.history, entry))
             IN  CASE io = "write" ->
                        [file |-> File(data), err |-> "write error", fault |-> io]
                   [] io = "write truncated" ->
                        [file |-> File(<<>>), err |-> "write error", fault |-> io]
                   [] OTHER ->
                        [file |-> File(updatedContent), err |-> NoErr,
                         fault |-> "none"]

\* The lines typed at the prompt.
ReplLines ==
    {<<"5">>, <<" ", "5", " ">>, <<"2", "+", "3">>, <<"2", "+">>,
     <<"1", "/", "0">>, <<"2", "@">>, <<"0", "^", "(", "0", "-", "1", ")">>,
     <<"x">>, <<>>, <<" ">>,
     <<"h", "e", "l", "p">>, <<"h", "i", "s", "t", "o", "r", "y">>,
     <<"v", "a", "r", "s">>, <<"v", "a", "r", "i", "a", "b", "l", "e", "s">>,
     <<"c", "l", "e", "a", "r">>, <<"c", "l", "s">>,
     <<"e", "x", "i", "t">>, <<"q", "u", "i", "t">>,
     <<"p", "r", "e", "c", "i", "s", "i", "o", "n", " ", "5">>,
     <<"p", "r", "e", "c", "i", "s", "i", "o", "n", " ", "2", "5">>,
     <<"p", "r", "e", "c", "i", "s", "i", "o", "n", " ", "x">>,
     <<"p", "r", "e", "c", "i", "s", "i", "o", "n", " ", "5", " ", "5">>,
     <<"p", "r", "e", "c", "i", "s", "i", "o", "n", " ">>,
     <<"c", "o", "n", "v", "e", "r", "t", " ", "1", " ", "k", "m", " ", "t", "o",
       " ", "m">>}

PrecisionPrefix == <<"p", "r", "e", "c", "i", "s", "i", "o", "n", " ">>
ConvertPrefix == <<"c", "o", "n", "v", "e", "r", "t", " ">>
ExitWords == {<<"e", "x", "i", "t">>, <<"q", "u", "i", "t">>}
\* clear, cls, help, variables, vars and history: they print and change nothing
\* (history.ShowHistory only reads the file).
PrintingWords ==
    {<<"c", "l", "e", "a", "r">>, <<"c", "l", "s">>, <<"h", "e", "l", "p">>,
     <<"v", "a", "r", "i", "a", "b", "l", "e", "s">>, <<"v", "a", "r", "s">>,
     <<"h", "i", "s", "t", "o", "r", "y">>}

\* The default case of the switch.
IsExpressionLine(in) ==
    /\ in # <<>>
    /\ in \notin ExitWords \cup PrintingWords
    /\ ~HasPrefix(in, PrecisionPrefix)
    /\ ~HasPrefix(in, ConvertPrefix)

InitRepl ==
    /\ historyFile \in {Absent, File(<<>>)}
    /\ Precision = DefaultPrecision
    /\ setArg = DefaultPrecision
    /\ setErr = NoErr
    /\ replLine = <<>>
    /\ replVal = NoVal
    /\ replErr = NoErr
    /\ saveErr = NoErr
    /\ ioFault = "none"
    /\ replCount = 0
    /\ rstage = "prompt"
    /\ ParserOff
    /\ TokenizerOff
    /\ EvaluatorOff
    /\ SessionOff

\* scanner.Scan() returned a line; input := strings.TrimSpace(scanner.Text())
Reads(raw) ==
    /\ rstage = "prompt"
    /\ replCount < MaxReplLines
    /\ replLine' = TrimSpace(raw)
    /\ replCount' = replCount + 1
    /\ UNCHANGED sessionVars

\* if input == "" { continue }, and the commands that only print
ReadPrinting(raw) ==
    /\ Reads(raw)
    /\ TrimSpace(raw) = <<>> \/ TrimSpace(raw) \in PrintingWords
    /\ replVal' = NoVal
    /\ replErr' = NoErr
    /\ UNCHANGED <<historyFile, Precision, setArg, setErr, saveErr, ioFault, rstage,
                   parserVars, tokenizerVars, evaluatorVars>>

\* case input == "exit" || input == "quit"
ReadExit(raw) ==
    /\ Reads(raw)
    /\ TrimSpace(raw) \in ExitWords
    /\ rstage' = "exited"
    /\ replVal' = NoVal
    /\ replErr' = NoErr
    /\ UNCHANGED <<historyFile, Precision, setArg, setErr, saveErr, ioFault,
                   parserVars, tokenizerVars, evaluatorVars>>

\* case strings.HasPrefix(input, "precision "): handlePrecision
ReadPrecision(raw) ==
    /\ Reads(raw)
    /\ HasPrefix(TrimSpace(raw), PrecisionPrefix)
    /\ LET parts == Fields(TrimSpace(raw)) IN
       IF Len(parts) # 2
       THEN /\ replErr' = "Usage: precision <number>"
            /\ UNCHANGED <<Precision, setArg, setErr>>
       ELSE LET precision == Atoi(parts[2]) IN
            IF precision.err # NoErr
            THEN /\ replErr' = "Invalid number"
                 /\ UNCHANGED <<Precision, setArg, setErr>>
            ELSE LET r == Set(Precision, precision.val) IN
                 /\ Precision' = r.Precision
                 /\ setArg' = precision.val
                 /\ setErr' = r.err
                 /\ replErr' = r.err
    /\ replVal' = NoVal
    /\ UNCHANGED <<historyFile, saveErr, ioFault, rstage,
                   parserVars, tokenizerVars, evaluatorVars>>

\* case strings.HasPrefix(input, "convert "): handleConversion prints the
\* conversion or an error
ReadConvert(raw) ==
    /\ Reads(raw)
    /\ HasPrefix(TrimSpace(raw), ConvertPrefix)
    /\ replVal' = NoVal
    /\ replErr' = NoErr
    /\ UNCHANGED <<historyFile, Precision, setArg, setErr, saveErr, ioFault, rstage,
                   parserVars, tokenizerVars, evaluatorVars>>

\* default: handleExpression(input).  The results of the three stages are
\* kept in the variables of the tokenizer, the parser and the evaluator.
ReadExpression(raw, io) ==
    /\ Reads(raw)
    /\ IsExpressionLine(TrimSpace(raw))
    /\ input' = replLine'
    /\ LET t == Tokenize(replLine') IN
           /\ tokens' = t.tokens
           /\ terr' = t.err
    /\ IF terr' # NoErr
       THEN /\ replErr' = terr'
            /\ UNCHANGED <<parserVars, evaluatorVars>>
       ELSE /\ Tokens' = tokens'
            /\ LET p == ParseExpression(tokens') IN
                   /\ ast' = p.node
                   /\ perr' = p.err
                   /\ pos' = p.pos
            /\ IF perr' # NoErr
               THEN /\ replErr' = perr'
                    /\ UNCHANGED evaluatorVars
               ELSE /\ evalNode' = ast'
                    /\ LET r == Eval(ast') IN
                           /\ r.err # Untracked
                           /\ evalVal' = r.val
                           /\ evalErr' = r.err
                    /\ replErr' = evalErr'
                    /\ UNCHANGED estage
            /\ UNCHANGED pstage
    /\ IF replErr' # NoErr
       THEN /\ replVal' = NoVal
            /\ io = "none"
            /\ UNCHANGED <<historyFile, saveErr, ioFault>>
       ELSE LET h == AddHistory(historyFile, replLine', evalVal', io) IN
            /\ replVal' = evalVal'
            /\ historyFile' = h.file
            /\ saveErr' = h.err
            /\ ioFault' = h.fault
    /\ UNCHANGED <<Precision, setArg, setErr, rstage, i, numberBuffer,
                   wordBuffer, tstage>>

NextRepl ==
    \E raw \in ReplLines :
        \/ ReadPrinting(raw)
        \/ ReadExit(raw)
        \/ ReadPrecision(raw)
        \/ ReadConvert(raw)
        \/ \E io \in IOFaults : ReadExpression(raw, io)

SpecRepl == InitRepl /\ [][NextRepl]_vars

(***************************************************************************)
(* C23.  History records exactly the successful calculations, in order:    *)
(* in every step of the REPL in which the file system works, the entry     *)
(* (input, result) is appended to the history when the line is an          *)
(* expression whose tokenizing, parsing and evaluation all succeed, and    *)
(* the history is left as it was for a line that fails at any stage and    *)
(* for every command line; no earlier entry is changed or removed.         *)
(***************************************************************************)
Entries(file) == file.data

\* The line just read was an expression, and Tokenize, ParseExpression and
\* Eval all returned a nil error for it.
Calculated ==
    /\ IsExpressionLine(replLine)
    /\ input = replLine /\ terr = NoErr
    /\ Tokens = tokens /\ perr = NoErr
    /\ evalNode = ast /\ evalErr = NoErr

C23_HistoryOfSuccesses ==
    [][(replCount' = replCount + 1 /\ ioFault' = "none") =>
         IF Calculated'
         THEN Entries(historyFile') =
                Append(Entries(historyFile),
                       Marshal([Expression |-> replLine', Result |-> evalVal']))
         ELSE Entries(historyFile') = Entries(historyFile)
      ]_vars

(***************************************************************************)
(* C25.  Every NUMBER token of a successful Tokenize is a valid numeral:   *)
(* its text is made of digits, `.`, one exponent marker and its sign, has  *)
(* at least one digit, at most one `.`, at most one exponent marker, no    *)
(* `.` after the marker, and at least one digit after the marker and its   *)
(* sign (so `.`, `1e5.2` and `1.2.3` are never NUMBER tokens).             *)
(***************************************************************************)
CountIn(str, chars) == Cardinality({k \in 1..Len(str) : str[k] \in chars})

IsNumeral(str) ==
    LET e == ExponentAt(str) 
        mantissa == IF e = 0 THEN str ELSE SubSeq(str, 1, e - 1)
        exponent == IF e = 0 THEN <<>> ELSE SubSeq(str, e + 1, Len(str))
        unsigned == IF exponent # <<>> /\ Head(exponent) \in {"+", "-"}
                    THEN Tail(exponent) ELSE exponent
    IN  /\ CountIn(mantissa, Digits) >= 1
        /\ CountIn(mantissa, {"."}) <= 1
        /\ \A k \in 1..Len(mantissa) : mantissa[k] \in Digits \cup {"."}
        /\ e # 0 => /\ Len(unsigned) >= 1
                    /\ \A k \in 1..Len(unsigned) : unsigned[k] \in Digits

C25_NumberTokensAreNumerals ==
    tstage = "done" =>
        \A k \in 1..Len(tokens) :
            tokens[k].Type = "NUMBER" => IsNumeral(tokens[k].Value)

(***************************************************************************)
(* C26.  Every tree of a successful ParseExpression is well-formed: each   *)
(* binary operator, comparison, AND and OR node has a non-nil Left and     *)
(* Right, each neg node a non-nil Left, each assignment node a non-nil     *)
(* Right, each factorial node exactly one argument, and no function node   *)
(* has a nil entry in Children; and so for every node below.               *)
(***************************************************************************)
RECURSIVE WellFormed(_)
WellFormed(n) ==
    IF IsNil(n) THEN FALSE
    ELSE CASE n.Type \in {"NODE_NUMBER", "NODE_IDENTIFIER"} -> TRUE
           [] n.Type = "NODE_OPERATOR" /\ n.Value = Negation ->
                WellFormed(n.Left)
           [] n.Type \in {"NODE_OPERATOR", "NODE_COMPARISON", "NODE_AND", "NODE_OR"}
              /\ n.Value # Negation ->
                WellFormed(n.Left) /\ WellFormed(n.Right)
           [] n.Type = "NODE_ASSIGN" -> WellFormed(n.Right)
           [] n.Type = "NODE_FUNCTION" ->
                /\ n.Value = <<"!">> => Len(n.Children) = 1
                /\ \A k \in 1..Len(n.Children) : WellFormed(n.Children[k])
           [] OTHER -> FALSE

C26_WellFormedTrees ==
    (pstage = "done" /\ perr = NoErr) => WellFormed(ast)

\* `x = 2` : an assignment node with its right side.
C26_Witness ==
    /\ pstage = "done"
    /\ perr = NoErr
    /\ Tokens = <<Ident("x"), Assign, Num("2")>>
    /\ ast.Type = "NODE_ASSIGN"
    /\ ~IsNil(ast.Right)
    /\ WellFormed(ast)

(***************************************************************************)
(* C27.  Tokenize is total and terminates: every step of the scan loop     *)
(* strictly increases the scan index, which never decreases and never      *)
(* passes the end of the input by more than one, and for every input the   *)
(* call eventually returns, with a token list or with an error.            *)
(***************************************************************************)
C27_TokenizeTerminates ==
    /\ [][/\ i' >= i
          /\ (tstage = "scan" /\ tstage' = "scan") => i' > i
          /\ i' <= Len(input) + 1
          /\ tstage' \in {"scan", "done", "error"}]_vars
    /\ <>(tstage \in {"done", "error"})

\* `x 1` : the word and the character after it are passed in one step, and
\* Tokenize returns.
C27_Witness ==
    /\ tstage = "done"
    /\ input = <<"x", " ", "1">>
    /\ i = 3

(***************************************************************************)
(* C28.  No input character is dropped or duplicated by a successful       *)
(* Tokenize: the texts of the tokens, those of the inserted '*' apart,     *)
(* hold every character of the input that is not white space exactly as    *)
(* often as the input does (the `+` of `x+5` is not skipped).               *)
(***************************************************************************)
Range(str) == {str[k] : k \in 1..Len(str)}

C28_NoCharacterLost ==
    (tstage = "done" /\ ~HasStar(input)) =>
        \A c \in (Range(input) \cup Range(Lexemes(tokens))) \ Spaces :
            CountIn(Lexemes(tokens), {c}) = CountIn(input, {c})

(***************************************************************************)
(* C29.  A digit directly followed by `e` or `E` is always scanned as the  *)
(* start of an exponent: for an input that begins with digits, then the    *)
(* marker, then an optional sign and no digit (`2e`, `2exp(1)`, `3E`),     *)
(* Tokenize returns the invalid-exponent error and no tokens; with white   *)
(* space between the digits and the name (`2 e`) it returns no error.      *)
(***************************************************************************)
AllDigits(str, k) == k >= 1 /\ \A j \in 1..k : IsDigit(str[j])

\* digits, a marker, an optional sign, and then no digit
NumberThenName(in) ==
    \E k \in 1..(Len(in) - 1) :
        /\ AllDigits(in, k)
        /\ in[k + 1] \in Markers
        /\ LET sgn == IF k + 2 <= Len(in) /\ in[k + 2] \in {"+", "-"}
                      THEN 1 ELSE 0
           IN  DigitRun(in, k + 2 + sgn) = 0

\* digits, one space, and a word that begins with a marker
NumberSpaceName(in) ==
    \E k \in 1..(Len(in) - 2) :
        /\ AllDigits(in, k)
        /\ in[k + 1] = " "
        /\ in[k + 2] \in Markers
        /\ \A j \in (k + 2)..Len(in) : IsLetter(in[j])

C29_ExponentNotName ==
    tstage \in {"done", "error"} =>
        /\ NumberThenName(input) =>
                /\ tstage = "error"
                /\ terr = "invalid exponent in number"
                /\ tokens = <<>>
        /\ NumberSpaceName(input) => (tstage = "done" /\ terr = NoErr)

\* `2exp(1)` is a malformed exponent.
C29_Witness ==
    /\ tstage = "error"
    /\ input = <<"2", "e", "x", "p", "(", "1", ")">>
    /\ terr = "invalid exponent in number"
    /\ tokens = <<>>

(***************************************************************************)
(* C30.  The right operand of `^` is parsed at the exponent level, which   *)
(* accepts no leading sign: a token sequence in which `^` is directly      *)
(* followed by `-` or `+` (`a ^ - b`, `a ^ + b`) makes ParseExpression     *)
(* return an error and a nil tree, whereas `a ^ ( - b )` parses to         *)
(* ^(a, neg(b)).                                                           *)
(***************************************************************************)
SignAfterPower(toks) ==
    \E k \in 1..(Len(toks) - 1) : toks[k] = Op("^") /\ toks[k + 1] \in AddOps

GroupedNegativePower(toks) ==
    /\ Len(toks) = 6
    /\ toks[1] \in Operands
    /\ toks[2] = Op("^")
    /\ toks[3] = LP
    /\ toks[4] = Op("-")
    /\ toks[5] \in Operands
    /\ toks[6] = RP

C30_SignedExponentRejected ==
    pstage = "done" =>
        /\ SignAfterPower(Tokens) => (perr # NoErr /\ ast = Nil)
        /\ GroupedNegativePower(Tokens) =>
                Parsed(Bin(Op("^"), Leaf(Tokens[1]), Neg(Leaf(Tokens[5]))))

\* `2 ^ - x` is rejected.
C30_Witness ==
    /\ pstage = "done"
    /\ Tokens = <<Num("2"), Op("^"), Op("-"), Ident("x")>>
    /\ perr # NoErr
    /\ ast = Nil
====
